---- MODULE Spec2Model ----
(***************************************************************************)
(* Titan Escape: the deterministic simulation engine (src/src/engine).     *)
(*                                                                         *)
(* Number representation.  The engine computes in IEEE doubles with        *)
(* dt = FIXED_DT = 1/60 s.  The model is fixed point:                      *)
(*   lengths     1/6 px   (Px(n) = 6n; every speed*dt of the configuration *)
(*                         is a whole number of these: 200 px/s = 20/tick) *)
(*   velocities  length units per tick (velocity * dt)                     *)
(*   wear        1/1000 of a wear point                                    *)
(*   rng values  the integer state v, standing for the double v / 2^31     *)
(* Quotients that are not whole are truncated (\div).                      *)
(***************************************************************************)
EXTENDS Integers, Sequences, FiniteSets, TLC

(***************************************************************************)
(* Configuration (src/src/engine/index.ts, the config part)                *)
(***************************************************************************)
TICKS_PER_SECOND == 60
DEFAULT_CANVAS_WIDTH == 1920
MAX_DEPTH == 10000
SUB_WIDTH == 80
SUB_HEIGHT == 40
CAPSULE_WIDTH == 25
CAPSULE_HEIGHT == 20
SUB_STARTING_HP == 4
PASSENGER_COUNT == 4
CAPSULE_HP == 1
HORIZONTAL_SPEED == 200
BASE_DESCENT_SPEED == 80
DESCENT_SPEED_FACTOR == 120
ASCENT_SPEED == 350
BASE_WEAR_RATE_MILLI == 300
DEPTH_WEAR_FACTOR_MILLI == 1500
WEAR_LIMIT == 100
INVINCIBILITY_FRAMES == 120
OBSTACLE_DENSITY_MIN_MILLI == 1200
OBSTACLE_DENSITY_MAX_MILLI == 4000
SMALL_ROCKET_COUNT == 2
SMALL_ROCKET_DAMAGE == 1
MINE_DAMAGE == 4
ROCKET_SPEED == 400
MINE_LIFETIME == 300
ROCKET_LIFETIME == 300
ROCKET_WIDTH == 20
ROCKET_HEIGHT == 8
MINE_SIZE == 25
HP_PICKUP_CHANCE_PPM == 150
AMMO_PICKUP_CHANCE_PPM == 100
HP_PICKUP_SIZE == 20
HP_PICKUP_HEAL == 1
VERTICAL_SPEED == 150
CORAL_MIN_DEPTH == 0
CORAL_MAX_DEPTH == 6000
ICE_MIN_DEPTH == 2000
ICE_MAX_DEPTH == MAX_DEPTH
TURTLE_MIN_DEPTH == 800
TURTLE_MAX_DEPTH == 8000
TURTLE_SPEED == 30
ANGLER_FISH_MIN_DEPTH == 1000
ANGLER_FISH_SPAWN_CHANCE_PPM == 500
ANGLER_FISH_WIDTH == 35
ANGLER_FISH_HEIGHT == 25
ANGLER_FISH_AGGRO_RADIUS == 150
ANGLER_FISH_SPEED_MULTIPLIER_PCT == 75
ANGLER_FISH_INITIAL_SPEED == 30
ANGLER_FISH_EDGE_OFFSET == 50
ANGLER_FISH_SPAWN_SPREAD == 300
ROCKET_MUZZLE_OFFSET_X == 80
ROCKET_MUZZLE_OFFSET_Y == 20
MINE_OFFSET_X == 30
MINE_OFFSET_Y == 50
PICKUP_MARGIN == 50
AMMO_ROCKET_SHARE_PPM == 600000
ANGLER_FISH_DAMAGE == 1
ANGLER_FISH_MAX_COUNT == 5
ANGLER_FISH_CANVAS_WIDTH == 1920
OBSTACLE_GENERATION_BUFFER == 800
PLAYER_START_Y == 50
WORLD_LEFT_BOUND == 20
CHUNK_SIZE == 100
SEGMENT_SIZE == 100
IMPLOSION_FRAMES == 60

COLLISION_WEAR == [coral |-> 5, iceBlock |-> 12, seaTurtle |-> 4]
COLLISION_DAMAGE == [coral |-> 1, iceBlock |-> 1, seaTurtle |-> 1]
OBSTACLE_SIZE ==
    [coral     |-> [minW |-> 40, maxW |-> 80, minH |-> 35, maxH |-> 70],
     iceBlock  |-> [minW |-> 40, maxW |-> 80, minH |-> 30, maxH |-> 60],
     seaTurtle |-> [minW |-> 35, maxW |-> 55, minH |-> 25, maxH |-> 40]]

(***************************************************************************)
(* Fixed point helpers                                                     *)
(***************************************************************************)
Px(n) == 6 * n
\* displacement per tick, in length units, of a speed given in px/s
PerTick(pxPerSecond) == (Px(pxPerSecond)) \div TICKS_PER_SECOND
\* wear points in model units (1/100000 of a point)
Wear(points) == 100000 * points
\* quotient truncated toward zero, as the sign of a small double is kept
Quot(a, b) == IF a >= 0 THEN a \div b ELSE -((-a) \div b)

Min(a, b) == IF a < b THEN a ELSE b
Max(a, b) == IF a > b THEN a ELSE b
Abs(a) == IF a < 0 THEN -a ELSE a

\* TLC evaluates a definition where it is first needed, which nests the
\* evaluation of a chain of steps; CASE Evaluated(v) -> e evaluates v first
\* and then e, as the statements of the code run one after the other
Evaluated(v) == v = v

Pow2(n) == IF n <= 0 THEN 1 ELSE 2 ^ n

\* number of significant bits of n, 0 <= n < 2^31
BitLen(n) == Cardinality({k \in 0..30 : 2 ^ k <= n})

\* floor of the square root, by Newton's iteration from a power of two above it
RECURSIVE SqrtFrom(_, _)
SqrtFrom(n, g) ==
    LET h == (g + n \div g) \div 2
    IN  IF h >= g THEN g ELSE SqrtFrom(n, h)

Isqrt(n) == IF n <= 0 THEN 0 ELSE SqrtFrom(n, 2 ^ ((BitLen(n) + 1) \div 2))

(***************************************************************************)
(* Seeded RNG (src/src/engine/rng.ts).  LCG_M = 2^31 is one more than the  *)
(* largest integer TLC computes with, so it appears as LCG_M_MINUS_1 + 1   *)
(* in comparisons that stay in range.                                      *)
(*                                                                         *)
(* next() evaluates (LCG_A * state + LCG_C) % LCG_M in doubles: the        *)
(* product, up to 2^61, is rounded to 53 significant bits (ties to even),  *)
(* then the sum is, and the remainder is exact.  RngNext computes exactly  *)
(* that on 16-bit limbs.                                                   *)
(***************************************************************************)
LCG_A_HI == 16838          \* LCG_A = 1103515245 = LCG_A_HI * 2^16 + LCG_A_LO
LCG_A_LO == 20077
LCG_C == 12345
LCG_M_MINUS_1 == 2147483647
DOUBLE_MANTISSA_BITS == 53

\* [hi, lo] of LCG_A * s, where the product is hi * 2^31 + lo
LcgProduct(s) ==
    LET s1 == s \div 65536
        s0 == s % 65536
        l  == LCG_A_LO * s0
        m  == LCG_A_HI * s0 + LCG_A_LO * s1
        h  == LCG_A_HI * s1
        sumHi == (l \div 65536) + (m % 32768)
    IN  [hi |-> 2 * h + (m \div 32768) + (sumHi \div 32768),
         lo |-> (sumHi % 32768) * 65536 + (l % 65536)]

\* the double nearest to hi * 2^31 + lo (ties to even), as [hi, lo]
RoundToUnit(v, unit) ==
    LET low  == v.lo % unit
        base == v.lo - low
        odd  == (v.lo \div unit) % 2 = 1
        up   == 2 * low > unit \/ (2 * low = unit /\ odd)
    IN  IF ~up THEN [hi |-> v.hi, lo |-> base]
        ELSE IF base = (LCG_M_MINUS_1 - unit) + 1 THEN [hi |-> v.hi + 1, lo |-> 0]
        ELSE [hi |-> v.hi, lo |-> base + unit]

\* v of `bits` significant bits keeps the leading DOUBLE_MANTISSA_BITS of them
RoundBits(v, bits) ==
    IF bits <= DOUBLE_MANTISSA_BITS THEN v
    ELSE RoundToUnit(v, Pow2(bits - DOUBLE_MANTISSA_BITS))

RoundToDouble(v) == RoundBits(v, IF v.hi > 0 THEN 31 + BitLen(v.hi) ELSE BitLen(v.lo))

\* v + LCG_C, as [hi, lo]
LcgAddC(v) ==
    IF v.lo > LCG_M_MINUS_1 - LCG_C
    THEN [hi |-> v.hi + 1, lo |-> (v.lo - (LCG_M_MINUS_1 - LCG_C)) - 1]
    ELSE [hi |-> v.hi, lo |-> v.lo + LCG_C]

\* SeededRNG.next: the new state; the value returned is state / LCG_M.
\* A state is an integer of 0..LCG_M - 1.
RngNext(s) ==
    CASE s \in 0..LCG_M_MINUS_1 -> RoundToDouble(LcgAddC(RoundToDouble(LcgProduct(s)))).lo


\* the states after each of n successive calls of next(), from `first`, the
\* state after the first of them
RECURSIVE DrawsFrom(_, _)
DrawsFrom(first, n) ==
    IF n <= 1 THEN <<first>> ELSE <<first>> \o DrawsFrom(RngNext(first), n - 1)

Draws(s, n) == DrawsFrom(RngNext(s), n)

\* SeededRNG constructor: Math.abs(Math.floor(seed)) % LCG_M, 0 replaced by 1
\* (seeds of the model are integers below 2^31 in absolute value)
createRNG(seed) == IF Abs(seed) = 0 THEN 1 ELSE Abs(seed)

\* a seed of any size: [negative, high, low] stands for the integer
\* +-(high * 2^31 + low), low in 0..2^31 - 1
WideSeed(negative, high, low) == [negative |-> negative, high |-> high, low |-> low]

PickError == "Error: Cannot pick from empty array"

\* a constructor that keeps a zero state
SeededRNGZero(seed) == seed.low

\* new SeededRNG(seed), lines 26-32: Math.abs(Math.floor(seed)) % LCG_M drops
\* the sign and the multiples of 2^31; a zero state becomes 1
SeededRNG(seed) == IF seed.low = 0 THEN 1 ELSE seed.low

\* a setState that leaves the object in the state it has
setStateKept(own, state) == own

\* setState(state), lines 45-47, on an object whose state is `own`
setState(own, state) == state

\* a clone that is left as its constructor made it
cloneFresh(state) == SeededRNG(WideSeed(FALSE, 0, 1))

\* clone(), lines 99-103: the state of the new object
clone(state) == state

\* Math.floor(v / LCG_M * range) for a state v, range below 2^15
FloorScale(v, range) == ((v \div 65536) * range + ((v % 65536) * range) \div 65536) \div 32768

\* nextInt(min, max), lines 62-65, on an object in `state`: [state, result]
nextInt(state, min, max) ==
    [state |-> RngNext(state),
     result |-> min + FloorScale(RngNext(state), max - min + 1)]

\* a pick that draws before it looks at the array
pickDrawn(state, array) ==
    IF Len(array) = 0 THEN [state |-> RngNext(state), result |-> PickError]
    ELSE [state |-> RngNext(state),
          result |-> array[1 + nextInt(state, 0, Len(array) - 1).result]]

\* pick(array), lines 88-93: [state, result]; the error thrown is the result
pick(state, array) ==
    IF Len(array) = 0 THEN [state |-> state, result |-> PickError]
    ELSE [state |-> nextInt(state, 0, Len(array) - 1).state,
          result |-> array[1 + nextInt(state, 0, Len(array) - 1).result]]

\* v / LCG_M * range, truncated (range below 2^15 in absolute value)
RngScale(v, range) == ((v \div 32768) * range) \div 65536

\* next() < ppm / 10^6, for the value v / LCG_M
RngBelowPpm(v, ppm) ==
    LET a    == ppm \div 1000
        b    == ppm % 1000
        frac == a * 648000 + b * 483648        \* millionths of a state unit
        whole == a * 2147483 + b * 2147 + frac \div 1000000
    IN  IF ppm >= 1000000 THEN TRUE
        ELSE IF ppm <= 0 THEN FALSE
        ELSE v < whole \/ (v = whole /\ frac % 1000000 > 0)

\* nextBool(): next() < 0.5
RngBelowHalf(v) == v < 1073741824

(***************************************************************************)
(* Module-level state read by the engine (index.ts: CANVAS_WIDTH)          *)
(***************************************************************************)
getWorldRightBound(canvasWidth) == Px(canvasWidth - 20)
getPlayer1StartX(canvasWidth) == (Px(canvasWidth) * 35) \div 100
getPlayer2StartX(canvasWidth) == (Px(canvasWidth) * 65) \div 100

\* Math.pow(x, 0.9) for x in [0, 1], in ten-thousandths: the product of the
\* 2nd, 4th, 8th, 64th, 128th, 1024th and 2048th roots (exponent 0.8999)
FRACTION_SCALE == 10000
RootS(x) == Isqrt(x * FRACTION_SCALE)
MulS(a, b) == (a * b) \div FRACTION_SCALE
Pow09(x) ==
    LET r2    == RootS(x)
        r4    == RootS(r2)
        r8    == RootS(r4)
        r16   == RootS(r8)
        r32   == RootS(r16)
        r64   == RootS(r32)
        r128  == RootS(r64)
        r256  == RootS(r128)
        r512  == RootS(r256)
        r1024 == RootS(r512)
        r2048 == RootS(r1024)
    IN  IF x <= 0 THEN 0
        ELSE MulS(MulS(MulS(MulS(MulS(MulS(r2, r4), r8), r64), r128), r1024), r2048)

\* getObstacleDensity(depth), depth in px; the result in thousandths
getObstacleDensity(depthPx) ==
    LET normalizedDepth == Min((depthPx * FRACTION_SCALE) \div MAX_DEPTH, FRACTION_SCALE)
        curve == Pow09(normalizedDepth)
    IN  OBSTACLE_DENSITY_MIN_MILLI
          + (curve * (OBSTACLE_DENSITY_MAX_MILLI - OBSTACLE_DENSITY_MIN_MILLI)) \div FRACTION_SCALE

(***************************************************************************)
(* Obstacle generator (src/src/engine/obstacleGenerator.ts)                *)
(* An obstacle id `obs_<chunk>_<index>` is the pair <<chunk, index>>; the  *)
(* prefix test id.startsWith(`obs_<chunk>_`) is equality of the chunk.     *)
(***************************************************************************)
generateObstacleId(chunkIndex, obstacleIndex) == <<chunkIndex, obstacleIndex>>

getAvailableTypes(depth) ==
    (IF depth >= Px(CORAL_MIN_DEPTH) /\ depth <= Px(CORAL_MAX_DEPTH) THEN <<"coral">> ELSE <<>>)
    \o (IF depth >= Px(ICE_MIN_DEPTH) /\ depth <= Px(ICE_MAX_DEPTH) THEN <<"iceBlock">> ELSE <<>>)
    \o (IF depth >= Px(TURTLE_MIN_DEPTH) /\ depth <= Px(TURTLE_MAX_DEPTH) THEN <<"seaTurtle">> ELSE <<>>)

\* the obstacle pushed by generateChunk's loop (lines 85-116) for a slot of
\* type `type` at `depth`; r[k] is the generator's state after the slot's k-th
\* draw.  Turtles draw a direction, then a 0.3 chance of a vertical drift in
\* [-10, 10) px/s
ChunkObstacle(r, depth, type, chunkIndex, i, canvasWidth) ==
    LET sizeConfig == OBSTACLE_SIZE[type]
        width == Px(sizeConfig.minW) + RngScale(r[3], Px(sizeConfig.maxW - sizeConfig.minW))
        height == Px(sizeConfig.minH) + RngScale(r[4], Px(sizeConfig.maxH - sizeConfig.minH))
        turtle == type = "seaTurtle"
        drift == RngBelowPpm(r[7], 300000)
    IN  [rng |-> IF ~turtle THEN r[5] ELSE IF drift THEN r[8] ELSE r[7],
         obstacles |-> << [id |-> generateObstacleId(chunkIndex, i), type |-> type,
                           x |-> Px(WORLD_LEFT_BOUND)
                                   + RngScale(r[5], getWorldRightBound(canvasWidth) - width
                                                      - Px(WORLD_LEFT_BOUND)),
                           y |-> depth, width |-> width, height |-> height,
                           velocityX |-> IF ~turtle THEN 0
                                         ELSE IF RngBelowHalf(r[6]) THEN PerTick(TURTLE_SPEED)
                                         ELSE -PerTick(TURTLE_SPEED),
                           velocityY |-> IF turtle /\ drift
                                         THEN (RngScale(r[8], 200) - 100 + 50) \div 100 ELSE 0,
                           active |-> TRUE] >>]

\* lines 77-84: a slot whose depth has no type is skipped after its first
\* draw; otherwise rng.pick draws the type
ChunkSlotAt(r, depth, availableTypes, chunkIndex, i, canvasWidth) ==
    IF Len(availableTypes) = 0
    THEN [rng |-> r[1], obstacles |-> <<>>]
    ELSE ChunkObstacle(r, depth, availableTypes[1 + RngScale(r[2], Len(availableTypes))],
                       chunkIndex, i, canvasWidth)

\* lines 74-78, with the draws r of the slot
ChunkSlotDrawn(r, chunkIndex, i, canvasWidth) ==
    LET depth == Px(chunkIndex * CHUNK_SIZE) + RngScale(r[1], Px(CHUNK_SIZE))
    IN  ChunkSlotAt(r, depth, getAvailableTypes(depth), chunkIndex, i, canvasWidth)

\* one iteration of generateChunk's loop: [rng, obstacles] after slot i, which
\* draws at most 8 numbers
ChunkSlot(rng, chunkIndex, i, canvasWidth) ==
    ChunkSlotDrawn(Draws(rng, 8), chunkIndex, i, canvasWidth)

\* st = [rng, obstacles] after the step that left the generator in more.rng
\* and pushed more.obstacles
Extend(st, more) == [rng |-> more.rng, obstacles |-> st.obstacles \o more.obstacles]

\* the loop of generateChunk (lines 73-117) for the slots lo..hi, in order,
\* from st = [rng, obstacles]; the range is halved so that the evaluation
\* nests no deeper than the logarithm of its length
RECURSIVE ChunkSlots(_, _, _, _, _)
ChunkSlots(st, chunkIndex, lo, hi, canvasWidth) ==
    IF lo > hi THEN st
    ELSE IF lo = hi
    THEN Extend(st, ChunkSlot(st.rng, chunkIndex, lo, canvasWidth))
    ELSE LET half == ChunkSlots(st, chunkIndex, lo, (lo + hi) \div 2, canvasWidth)
         IN  CASE Evaluated(half) ->
                  ChunkSlots(half, chunkIndex, (lo + hi) \div 2 + 1, hi, canvasWidth)

\* lines 71-119, from the state r0 of the generator after the draw of line 71
ChunkOf(r0, baseDensity, chunkIndex, canvasWidth) ==
    ChunkSlots([rng |-> r0, obstacles |-> <<>>], chunkIndex, 0,
               (baseDensity + RngScale(r0, 1500)) \div 1000 - 1, canvasWidth)

generateChunk(rng, chunkIndex, canvasWidth) ==
    ChunkOf(RngNext(rng), getObstacleDensity(chunkIndex * CHUNK_SIZE + CHUNK_SIZE \div 2),
            chunkIndex, canvasWidth)

ChunkExists(currentObstacles, chunkIndex) ==
    \E k \in 1..Len(currentObstacles) : currentObstacles[k].id[1] = chunkIndex

\* the loop of generateObstacles (lines 142-152) for the chunks lo..hi, in
\* order, from st = [rng, obstacles]; halved like ChunkSlots
RECURSIVE GenerateFrom(_, _, _, _, _)
GenerateFrom(st, currentObstacles, lo, hi, canvasWidth) ==
    IF lo > hi THEN st
    ELSE IF lo = hi
    THEN IF ChunkExists(currentObstacles, lo) THEN st
         ELSE Extend(st, generateChunk(st.rng, lo, canvasWidth))
    ELSE LET half == GenerateFrom(st, currentObstacles, lo, (lo + hi) \div 2, canvasWidth)
         IN  CASE Evaluated(half) ->
                  GenerateFrom(half, currentObstacles, (lo + hi) \div 2 + 1, hi, canvasWidth)

\* generateObstacles: [rng, obstacles]
generateObstacles(rng, currentObstacles, fromDepth, toDepth, canvasWidth) ==
    LET fromChunk == fromDepth \div Px(CHUNK_SIZE)
        toChunk == -((-toDepth) \div Px(CHUNK_SIZE))
        st == [rng |-> rng, obstacles |-> currentObstacles]
    IN  CASE Evaluated(st) ->
             GenerateFrom(st, currentObstacles, fromChunk, toChunk, canvasWidth)

\* an update that stops a moving obstacle at the wall without turning it
updateObstacleStopped(obstacle, canvasWidth) ==
    LET newX == obstacle.x + obstacle.velocityX
    IN  IF obstacle.velocityX = 0 /\ obstacle.velocityY = 0 THEN obstacle
        ELSE [obstacle EXCEPT
                 !.x = Max(Px(WORLD_LEFT_BOUND),
                           Min(getWorldRightBound(canvasWidth) - obstacle.width, newX)),
                 !.y = obstacle.y + obstacle.velocityY]

\* the callback of obstacles.map in updateObstacles (lines 165-188), dt one
\* tick: velocities are in units per tick
updateObstacle(obstacle, canvasWidth) ==
    LET newX == obstacle.x + obstacle.velocityX
    IN  IF obstacle.velocityX = 0 /\ obstacle.velocityY = 0 THEN obstacle
        ELSE IF newX < Px(WORLD_LEFT_BOUND)
        THEN [obstacle EXCEPT !.x = Px(WORLD_LEFT_BOUND),
                              !.y = obstacle.y + obstacle.velocityY,
                              !.velocityX = -obstacle.velocityX]
        ELSE IF newX + obstacle.width > getWorldRightBound(canvasWidth)
        THEN [obstacle EXCEPT !.x = getWorldRightBound(canvasWidth) - obstacle.width,
                              !.y = obstacle.y + obstacle.velocityY,
                              !.velocityX = -obstacle.velocityX]
        ELSE [obstacle EXCEPT !.x = newX, !.y = obstacle.y + obstacle.velocityY]

updateObstacles(obstacles, canvasWidth) ==
    [k \in 1..Len(obstacles) |-> updateObstacle(obstacles[k], canvasWidth)]

\* a window that follows the shallower end of the range alone
getVisibleObstaclesShallow(obstacles, minDepth, maxDepth, buffer) ==
    LET Visible(o) == o.active /\ o.y + o.height >= minDepth - buffer /\ o.y <= minDepth + buffer
    IN  SelectSeq(obstacles, Visible)

getVisibleObstacles(obstacles, minDepth, maxDepth, buffer) ==
    LET Visible(o) == o.active /\ o.y + o.height >= minDepth - buffer /\ o.y <= maxDepth + buffer
    IN  SelectSeq(obstacles, Visible)


(***************************************************************************)
(* Game state (src/src/engine/gameState.ts)                                *)
(***************************************************************************)
PlayerIds == <<"player1", "player2">>
NoCause == "none"          \* deathCause undefined
NoTarget == "none"         \* targetPlayerId null
NoWinner == "none"         \* winner null

PASSENGER_SWAY_DAMPING_PCT == 92
PASSENGER_SWAY_SPRING == 8
PASSENGER_SWAY_ACCELERATION == 15
MAX_PASSENGER_OFFSET == 8

createPassengers ==
    [i \in 1..PASSENGER_COUNT |-> [alive |-> TRUE, offsetX |-> 0, velocityX |-> 0]]

createPlayer(startX) ==
    [x |-> startX, y |-> Px(PLAYER_START_Y), velocityX |-> 0, velocityY |-> 0,
     width |-> Px(SUB_WIDTH), height |-> Px(SUB_HEIGHT), hp |-> SUB_STARTING_HP,
     wear |-> 0, state |-> "descending", maxDepthReached |-> Px(PLAYER_START_Y),
     deathCause |-> NoCause, invincibilityFrames |-> 0, passengers |-> createPassengers,
     implosionFrame |-> 0, rocketsRemaining |-> SMALL_ROCKET_COUNT, minesRemaining |-> 1]

\* createInitialState(config): the start positions come from the module-level
\* CANVAS_WIDTH, not from config.canvasWidth
createInitialState(config, canvasWidth) ==
    [frame |-> 0, seed |-> config.seed, rngState |-> createRNG(config.seed),
     phase |-> "playing", introProgress |-> 1,
     players |-> [player1 |-> createPlayer(getPlayer1StartX(canvasWidth)),
                  player2 |-> createPlayer(getPlayer2StartX(canvasWidth))],
     obstacles |-> <<>>, projectiles |-> <<>>, pickups |-> <<>>, anglerFish |-> <<>>,
     gameOver |-> FALSE, winner |-> NoWinner, generatedDepth |-> 0,
     currentMaxDepth |-> Px(PLAYER_START_Y)]

checkAABBCollision(a, b) ==
    /\ a.x < b.x + b.width
    /\ a.x + a.width > b.x
    /\ a.y < b.y + b.height
    /\ a.y + a.height > b.y

Box(e) == [x |-> e.x, y |-> e.y, width |-> e.width, height |-> e.height]

\* calculateDescentSpeed(depth) * dt
calculateDescentSpeed(depth) ==
    PerTick(BASE_DESCENT_SPEED)
      + Quot(Min(depth, Px(MAX_DEPTH)) * PerTick(DESCENT_SPEED_FACTOR), Px(MAX_DEPTH))

\* calculateWearRate(depth) * dt, in wear units
calculateWearRate(depth) ==
    Quot(Wear(BASE_WEAR_RATE_MILLI), 1000 * TICKS_PER_SECOND)
      + Quot(Min(depth, Px(MAX_DEPTH)) * (DEPTH_WEAR_FACTOR_MILLI \div TICKS_PER_SECOND),
             Px(MAX_DEPTH) \div 100)

\* offsets and velocities of passengers are in 1/1000 px (per tick)
updatePassenger(p, dx) ==
    LET v1 == p.velocityX - Quot(dx * 1000 * PASSENGER_SWAY_ACCELERATION,
                                 PerTick(HORIZONTAL_SPEED) * TICKS_PER_SECOND)
        v2 == v1 - Quot(p.offsetX * PASSENGER_SWAY_SPRING, TICKS_PER_SECOND)
        newVelocityX == Quot(v2 * PASSENGER_SWAY_DAMPING_PCT, 100)
        newOffsetX == Max(-1000 * MAX_PASSENGER_OFFSET,
                          Min(1000 * MAX_PASSENGER_OFFSET, p.offsetX + newVelocityX))
    IN  IF ~p.alive THEN p
        ELSE [p EXCEPT !.offsetX = newOffsetX, !.velocityX = newVelocityX]

\* updatePassengerPhysics; dx is the realized horizontal displacement of the tick
updatePassengerPhysics(passengers, dx) ==
    [i \in 1..Len(passengers) |-> updatePassenger(passengers[i], dx)]

LastAlive(passengers) ==
    LET alive == {i \in 1..Len(passengers) : passengers[i].alive}
    IN  IF alive = {} THEN 0 ELSE CHOOSE i \in alive : \A j \in alive : j <= i

killPassenger(passengers) ==
    LET i == LastAlive(passengers)
    IN  IF i = 0 THEN passengers ELSE [passengers EXCEPT ![i].alive = FALSE]

RECURSIVE killPassengers(_, _)
killPassengers(passengers, n) ==
    IF n <= 0 THEN passengers ELSE killPassengers(killPassenger(passengers), n - 1)

killAll(passengers) == [i \in 1..Len(passengers) |-> [passengers[i] EXCEPT !.alive = FALSE]]

IsDone(player) == player.state = "dead" \/ player.state = "escaped"

\* the dump-ballast change of vehicle (lines 622-631) with a reset forgotten
CapsuleKeepsHp(p) ==
    [p EXCEPT !.state = "ascending", !.width = Px(CAPSULE_WIDTH),
              !.height = Px(CAPSULE_HEIGHT), !.wear = 0,
              !.invincibilityFrames = INVINCIBILITY_FRAMES, !.passengers = <<>>]

\* updatePlayer, lines 622-631: the submarine becomes the escape capsule
Capsule(p) ==
    [p EXCEPT !.state = "ascending", !.width = Px(CAPSULE_WIDTH),
              !.height = Px(CAPSULE_HEIGHT), !.hp = CAPSULE_HP, !.wear = 0,
              !.invincibilityFrames = INVINCIBILITY_FRAMES, !.passengers = <<>>]

\* updatePlayer, lines 615-632: invincibility countdown, then dump ballast
AfterBallast(player, input) ==
    LET counted == IF player.invincibilityFrames > 0
                   THEN [player EXCEPT !.invincibilityFrames = @ - 1] ELSE player
    IN  IF input.action = "dumpBallast" /\ player.state = "descending"
        THEN Capsule(counted) ELSE counted

\* updatePlayer, lines 653-660: velocities and passenger sway of vehicle p
\* moved from prevX to newX
MovedTo(p, newX, prevX, verticalMove) ==
    IF p.state = "descending" /\ Len(p.passengers) > 0
    THEN [p EXCEPT !.x = newX, !.velocityX = newX - prevX, !.velocityY = verticalMove,
                   !.passengers = updatePassengerPhysics(p.passengers, newX - prevX)]
    ELSE [p EXCEPT !.x = newX, !.velocityX = newX - prevX, !.velocityY = verticalMove]

\* updatePlayer, lines 634-651: horizontal move and clamp, vertical input
Steered(p, input, prevX, canvasWidth) ==
    MovedTo(p,
            Max(Px(WORLD_LEFT_BOUND),
                Min(getWorldRightBound(canvasWidth) - p.width,
                    p.x + (IF input.left THEN -PerTick(HORIZONTAL_SPEED) ELSE 0)
                        + (IF input.right THEN PerTick(HORIZONTAL_SPEED) ELSE 0))),
            prevX,
            (IF input.up THEN -PerTick(VERTICAL_SPEED) ELSE 0)
              + (IF input.down THEN PerTick(VERTICAL_SPEED) ELSE 0))

\* updatePlayer, lines 615-660
MovePlayer(player, input, canvasWidth) ==
    Steered(AfterBallast(player, input), input, player.x, canvasWidth)

\* updatePlayer, lines 709-759: the obstacles of `touched`, in order, hit
\* vehicle p; `touched` are the active obstacles that overlap the box the
\* vehicle had before the loop
RECURSIVE HitObstacles(_, _, _)
HitObstacles(p, touched, collided) ==
    IF touched = <<>> THEN [player |-> p, collidedObstacles |-> collided]
    ELSE LET obstacle == Head(touched)
             hit == [p EXCEPT !.hp = p.hp - COLLISION_DAMAGE[obstacle.type],
                              !.wear = p.wear + Wear(COLLISION_WEAR[obstacle.type]),
                              !.invincibilityFrames = INVINCIBILITY_FRAMES,
                              !.passengers = killPassengers(p.passengers,
                                                            COLLISION_DAMAGE[obstacle.type])]
         IN  IF p.state = "ascending"
             THEN [player |-> [p EXCEPT !.hp = 0, !.state = "dead",
                                        !.deathCause = "crashedAscent",
                                        !.implosionFrame = 1],
                   collidedObstacles |-> Append(collided, obstacle.id)]
             ELSE IF hit.hp <= 0 \/ hit.wear >= Wear(WEAR_LIMIT)
             THEN [player |-> [hit EXCEPT !.wear = Min(hit.wear, Wear(WEAR_LIMIT)),
                                          !.state = "dead", !.deathCause = "imploded",
                                          !.implosionFrame = 1,
                                          !.passengers = killAll(hit.passengers)],
                   collidedObstacles |-> Append(collided, obstacle.id)]
             ELSE HitObstacles(hit, Tail(touched), Append(collided, obstacle.id))

\* collision detection that stops at the first obstacle hit
CollidePlayerFirst(p, obstacles) ==
    LET playerBox == Box(p)
        Touches(obstacle) == obstacle.active /\ checkAABBCollision(playerBox, Box(obstacle))
        touched == SelectSeq(obstacles, Touches)
    IN  HitObstacles(p, IF touched = <<>> THEN <<>> ELSE <<Head(touched)>>, <<>>)

\* updatePlayer, lines 702-759: collision detection against the supplied obstacles
CollidePlayer(p, obstacles) ==
    LET playerBox == Box(p)
        Touches(obstacle) == obstacle.active /\ checkAABBCollision(playerBox, Box(obstacle))
    IN  HitObstacles(p, SelectSeq(obstacles, Touches), <<>>)

\* the surface test of an ascending capsule, met a vehicle's length too early
ReachedSurfaceEarly(y) == y <= Px(SUB_HEIGHT)

\* updatePlayer, line 693: the ascending capsule has reached the surface
ReachedSurface(y) == y <= 0

\* collision detection whatever the invincibility
CollideAlways(p, obstacles) == CollidePlayer(p, obstacles)

\* updatePlayer, lines 699-760: collision detection, only if not invincible
CollideIfVulnerable(p, obstacles) ==
    IF p.invincibilityFrames <= 0
    THEN CollidePlayer(p, obstacles)
    ELSE [player |-> p, collidedObstacles |-> <<>>]

\* updatePlayer, lines 664-672: descent and the player's vertical move
Sunk(p) ==
    LET y == p.y + calculateDescentSpeed(p.y) + p.velocityY
    IN  [p EXCEPT !.y = y, !.maxDepthReached = Max(p.maxDepthReached, y)]

\* updatePlayer, lines 674-687: wear over time, implosion at the limit
WearOrImplode(p, wear, obstacles) ==
    IF wear >= Wear(WEAR_LIMIT)
    THEN [player |-> [p EXCEPT !.wear = Wear(WEAR_LIMIT), !.state = "dead",
                               !.deathCause = "imploded", !.implosionFrame = 1,
                               !.passengers = killAll(p.passengers)],
          collidedObstacles |-> <<>>]
    ELSE CollideIfVulnerable([p EXCEPT !.wear = wear], obstacles)

Descend(sunk, obstacles) ==
    WearOrImplode(sunk, sunk.wear + calculateWearRate(sunk.y), obstacles)

\* a capsule that does not rise
AscendHeld(p, y, obstacles) == CollideIfVulnerable(p, obstacles)

\* updatePlayer, lines 689-697: the capsule at depth y after its rise
AscendOrEscape(p, y, obstacles) ==
    IF ReachedSurface(y)
    THEN [player |-> [p EXCEPT !.y = 0, !.state = "escaped"], collidedObstacles |-> <<>>]
    ELSE CollideIfVulnerable([p EXCEPT !.y = y], obstacles)

\* updatePlayer, lines 662-760, for the vehicle after its horizontal move
AfterMove(moved, obstacles) ==
    IF moved.state = "descending" THEN Descend(Sunk(moved), obstacles)
    ELSE IF moved.state = "ascending"
    THEN AscendOrEscape(moved, moved.y - PerTick(ASCENT_SPEED), obstacles)
    ELSE CollideIfVulnerable(moved, obstacles)

\* updatePlayer, lines 611-762: a vehicle that is neither dead nor escaped
updateActivePlayer(player, input, obstacles, canvasWidth) ==
    AfterMove(MovePlayer(player, input, canvasWidth), obstacles)

\* updatePlayer without the early return of lines 600-609
updatePlayerAlways(player, input, obstacles, canvasWidth) ==
    updateActivePlayer(player, input, obstacles, canvasWidth)

\* updatePlayer: [player, collidedObstacles]
updatePlayer(player, input, obstacles, canvasWidth) ==
    IF IsDone(player)
    THEN IF player.implosionFrame > 0 /\ player.implosionFrame < IMPLOSION_FRAMES
         THEN [player |-> [player EXCEPT !.implosionFrame = @ + 1],
               collidedObstacles |-> <<>>]
         ELSE [player |-> player, collidedObstacles |-> <<>>]
    ELSE updateActivePlayer(player, input, obstacles, canvasWidth)

\* determineWinner with no result for equal depths
determineWinnerNoDraw(players) ==
    LET p1 == players.player1
        p2 == players.player2
    IN  IF p1.state = "escaped" /\ p2.state # "escaped" THEN "player1"
        ELSE IF p2.state = "escaped" /\ p1.state # "escaped" THEN "player2"
        ELSE IF p1.maxDepthReached > p2.maxDepthReached THEN "player1"
        ELSE IF p2.maxDepthReached > p1.maxDepthReached THEN "player2"
        ELSE NoWinner

\* determineWinner by depth alone
determineWinnerDeeper(players) ==
    IF players.player1.maxDepthReached > players.player2.maxDepthReached THEN "player1"
    ELSE IF players.player2.maxDepthReached > players.player1.maxDepthReached THEN "player2"
    ELSE "draw"

determineWinner(players) ==
    LET p1 == players.player1
        p2 == players.player2
        p1Survived == p1.state = "escaped"
        p2Survived == p2.state = "escaped"
        deeper == IF p1.maxDepthReached > p2.maxDepthReached THEN "player1"
                  ELSE IF p2.maxDepthReached > p1.maxDepthReached THEN "player2"
                  ELSE "draw"
    IN  IF p1Survived /\ p2Survived THEN deeper
        ELSE IF p1Survived /\ ~p2Survived THEN "player1"
        ELSE IF p2Survived /\ ~p1Survived THEN "player2"
        ELSE deeper

\* isGameOver that ends the game with the first vehicle that is done
isGameOverEither(players) == IsDone(players.player1) \/ IsDone(players.player2)

isGameOver(players) == IsDone(players.player1) /\ IsDone(players.player2)


(***************************************************************************)
(* Entity ids.  generateProjectileId, generatePickupId, generateAnglerFishId*)
(* read and increment module-level counters; `ids` is the record of the    *)
(* three counters and an id `proj_<n>` is the number n.                    *)
(***************************************************************************)
createPickup(type, x, y, ids) ==
    [id |-> ids.pickup, type |-> type, x |-> x, y |-> y, size |-> Px(HP_PICKUP_SIZE),
     active |-> TRUE]

\* checkPickupCollision without its test of the vehicle's state (line 113)
checkPickupCollisionAnyState(pickup, player) ==
    /\ pickup.active
    /\ checkAABBCollision(Box(player),
                          [x |-> pickup.x, y |-> pickup.y,
                           width |-> pickup.size, height |-> pickup.size])

\* lines 111-131
checkPickupCollision(pickup, player) ==
    /\ pickup.active
    /\ player.state = "descending"
    /\ checkAABBCollision(Box(player),
                          [x |-> pickup.x, y |-> pickup.y,
                           width |-> pickup.size, height |-> pickup.size])

applyPickup(pickup, player) ==
    CASE pickup.type = "health" ->
             [player EXCEPT !.hp = Min(player.hp + HP_PICKUP_HEAL, SUB_STARTING_HP)]
      [] pickup.type = "rocket" -> [player EXCEPT !.rocketsRemaining = @ + 1]
      [] pickup.type = "mine" -> [player EXCEPT !.minesRemaining = @ + 1]
      [] OTHER -> player

createRocket(ownerId, x, y, targetX, ids) ==
    LET direction == IF targetX > x THEN 1 ELSE -1
    IN  [id |-> ids.projectile, type |-> "rocket", ownerId |-> ownerId,
         x |-> x + (IF direction > 0 THEN Px(ROCKET_MUZZLE_OFFSET_X) ELSE -Px(ROCKET_WIDTH)),
         y |-> y + Px(ROCKET_MUZZLE_OFFSET_Y),
         width |-> Px(ROCKET_WIDTH), height |-> Px(ROCKET_HEIGHT),
         velocityX |-> direction * PerTick(ROCKET_SPEED), velocityY |-> 0,
         damage |-> SMALL_ROCKET_DAMAGE, lifetime |-> ROCKET_LIFETIME, active |-> TRUE]

createMine(ownerId, x, y, ids) ==
    [id |-> ids.projectile, type |-> "mine", ownerId |-> ownerId,
     x |-> x + Px(MINE_OFFSET_X), y |-> y + Px(MINE_OFFSET_Y),
     width |-> Px(MINE_SIZE), height |-> Px(MINE_SIZE),
     velocityX |-> 0, velocityY |-> 0,
     damage |-> MINE_DAMAGE, lifetime |-> MINE_LIFETIME, active |-> TRUE]

updateProjectile(p) ==
    IF ~p.active THEN p
    ELSE [p EXCEPT !.x = p.x + p.velocityX, !.y = p.y + p.velocityY,
                   !.lifetime = p.lifetime - 1, !.active = p.lifetime > 1]

updateProjectiles(projectiles) ==
    LET Kept(p) == p.active /\ p.lifetime > 0
    IN  SelectSeq([k \in 1..Len(projectiles) |-> updateProjectile(projectiles[k])], Kept)

OtherPlayer(id) == IF id = "player1" THEN "player2" ELSE "player1"

\* index of the first active obstacle the box overlaps, 0 if none
FirstObstacleHit(box, obstacles) ==
    LET hit == {i \in 1..Len(obstacles) :
                   obstacles[i].active /\ checkAABBCollision(box, Box(obstacles[i]))}
    IN  IF hit = {} THEN 0 ELSE CHOOSE i \in hit : \A j \in hit : i <= j

Deactivate(projectiles, id) ==
    [k \in 1..Len(projectiles) |->
        IF projectiles[k].id = id THEN [projectiles[k] EXCEPT !.active = FALSE]
        ELSE projectiles[k]]

\* stillActive of a projectile that counts as active whatever hit it
StillActiveAlways(projectiles, id) == TRUE

\* updatedProjectiles.find((p) => p.id === proj.id)?.active
StillActive(projectiles, id) ==
    LET same == {k \in 1..Len(projectiles) : projectiles[k].id = id}
    IN  same # {} /\ projectiles[CHOOSE k \in same : \A j \in same : k <= j].active

\* a hit that pushes the enemy aside and does no damage
ProjectilePush(enemy, proj) ==
    [enemy EXCEPT !.x = @ + proj.width, !.invincibilityFrames = INVINCIBILITY_FRAMES]

\* the enemy after a projectile hit (lines 294-315)
ProjectileDamage(enemy, proj) ==
    LET newHp == Max(0, enemy.hp - proj.damage)
        hurt == [enemy EXCEPT !.hp = newHp, !.invincibilityFrames = INVINCIBILITY_FRAMES,
                             !.passengers = killPassengers(enemy.passengers, enemy.hp - newHp)]
    IN  IF newHp <= 0
        THEN [hurt EXCEPT !.state = "dead", !.deathCause = "imploded", !.implosionFrame = 1,
                          !.passengers = killAll(hurt.passengers)]
        ELSE hurt

\* the enemy is not tested for a hit (lines 277-279)
ShieldedDoneOnly(enemy) == IsDone(enemy)

Shielded(enemy) == IsDone(enemy) \/ enemy.invincibilityFrames > 0

\* lines 273-319 for projectile proj, after its scan of the obstacles
RECURSIVE ProjectileLoop(_, _, _, _, _, _)
AfterObstacles(projectiles, k, proj, ups, players, obs, hs) ==
    LET enemyId == OtherPlayer(proj.ownerId)
    IN  IF ~StillActive(ups, proj.id)
        THEN ProjectileLoop(projectiles, k + 1, ups, players, obs, hs)
        ELSE IF Shielded(players[enemyId])
                \/ ~checkAABBCollision(Box(proj), Box(players[enemyId]))
        THEN ProjectileLoop(projectiles, k + 1, ups, players, obs, hs)
        ELSE ProjectileLoop(projectiles, k + 1, Deactivate(ups, proj.id),
                            [players EXCEPT ![enemyId] = ProjectileDamage(players[enemyId], proj)],
                            obs,
                            Append(hs, [projectileId |-> proj.id, targetType |-> "player",
                                        targetId |-> enemyId]))

\* lines 246-267 for projectile proj: i is the first active obstacle it
\* overlaps, 0 if none
ObstacleScan(projectiles, k, proj, i, updatedProjectiles, players, obstacles, hits) ==
    IF i > 0
    THEN AfterObstacles(projectiles, k, proj, Deactivate(updatedProjectiles, proj.id), players,
                        [obstacles EXCEPT ![i].active = FALSE],
                        Append(hits, [projectileId |-> proj.id, targetType |-> "obstacle",
                                      targetId |-> obstacles[i].id]))
    ELSE AfterObstacles(projectiles, k, proj, updatedProjectiles, players, obstacles, hits)

\* the loop of checkProjectileCollisions from index k of `projectiles`
ProjectileLoop(projectiles, k, updatedProjectiles, players, obstacles, hits) ==
    IF k > Len(projectiles)
    THEN [projectiles |-> updatedProjectiles, players |-> players,
          obstacles |-> obstacles, hits |-> hits]
    ELSE IF ~projectiles[k].active
    THEN ProjectileLoop(projectiles, k + 1, updatedProjectiles, players, obstacles, hits)
    ELSE ObstacleScan(projectiles, k, projectiles[k],
                      FirstObstacleHit(Box(projectiles[k]), obstacles),
                      updatedProjectiles, players, obstacles, hits)

checkProjectileCollisions(projectiles, players, obstacles) ==
    LET r == ProjectileLoop(projectiles, 1, projectiles, players, obstacles, <<>>)
        Active(p) == p.active
    IN  [r EXCEPT !.projectiles = SelectSeq(r.projectiles, Active)]


(***************************************************************************)
(* Angler fish                                                             *)
(***************************************************************************)
\* r[1], r[2]: the generator's state after the draw of the side and of y
AnglerFishAt(r, depth, canvasWidth, ids) ==
    LET left == r[1] > 1073741824
    IN  [rng |-> r[2],
         fish |-> [id |-> ids.anglerFish,
                   x |-> IF left THEN Px(ANGLER_FISH_EDGE_OFFSET)
                         ELSE Px(canvasWidth - ANGLER_FISH_EDGE_OFFSET),
                   y |-> depth + RngScale(r[2], Px(ANGLER_FISH_SPAWN_SPREAD))
                           - Px(ANGLER_FISH_SPAWN_SPREAD) \div 2,
                   width |-> Px(ANGLER_FISH_WIDTH), height |-> Px(ANGLER_FISH_HEIGHT),
                   velocityX |-> IF left THEN PerTick(ANGLER_FISH_INITIAL_SPEED)
                                 ELSE -PerTick(ANGLER_FISH_INITIAL_SPEED),
                   velocityY |-> 0, targetPlayerId |-> NoTarget,
                   aggroRadius |-> Px(ANGLER_FISH_AGGRO_RADIUS),
                   speed |-> PerTick((HORIZONTAL_SPEED * ANGLER_FISH_SPEED_MULTIPLIER_PCT) \div 100),
                   damage |-> ANGLER_FISH_DAMAGE, active |-> TRUE]]

\* createAnglerFish: [rng, fish]
createAnglerFish(rng, depth, canvasWidth, ids) ==
    AnglerFishAt(Draws(rng, 2), depth, canvasWidth, ids)

\* Math.sqrt(dx * dx + dy * dy), truncated; large operands are scaled down first
Distance(dx, dy) ==
    LET k == 1 + Max(Abs(dx), Abs(dy)) \div 30000
    IN  k * Isqrt((dx \div k) * (dx \div k) + (dy \div k) * (dy \div k))

CenterDelta(a, b) ==
    [dx |-> (a.x + a.width \div 2) - (b.x + b.width \div 2),
     dy |-> (a.y + a.height \div 2) - (b.y + b.height \div 2)]

\* lines 504-526: the target of fish f after the aggro check, dropped if that
\* vehicle is dead or escaped
FishTarget(f, players) ==
    LET InRange(id) ==
            /\ players[id].state = "descending"
            /\ Distance(CenterDelta(players[id], f).dx, CenterDelta(players[id], f).dy)
                 < f.aggroRadius
        acquired == IF f.targetPlayerId # NoTarget THEN f.targetPlayerId
                    ELSE IF InRange("player1") THEN "player1"
                    ELSE IF InRange("player2") THEN "player2"
                    ELSE NoTarget
    IN  IF acquired # NoTarget /\ IsDone(players[acquired]) THEN NoTarget ELSE acquired

\* lines 527-541: fish f steered to its target, if it has one, and moved
MoveFish(f, target, players) ==
    LET d == CenterDelta(players[target], f)
        distance == Distance(d.dx, d.dy)
        chase == target # NoTarget /\ distance > 0
        vx == IF chase THEN Quot(d.dx * f.speed, distance) ELSE f.velocityX
        vy == IF chase THEN Quot(d.dy * f.speed, distance) ELSE f.velocityY
    IN  [f EXCEPT !.targetPlayerId = target, !.velocityX = vx, !.velocityY = vy,
                  !.x = f.x + vx, !.y = f.y + vy]

\* the collisions of a fish that bites its target through an obstacle
FishCollisionsThrough(moved, players, obstacles) ==
    LET blocked == FirstObstacleHit(Box(moved), obstacles) > 0
        bites == /\ moved.targetPlayerId # NoTarget
                 /\ players[moved.targetPlayerId].state = "descending"
                 /\ checkAABBCollision(Box(moved), Box(players[moved.targetPlayerId]))
    IN  [fish |-> [moved EXCEPT !.active = ~blocked /\ ~bites],
         damaged |-> IF bites THEN moved.targetPlayerId ELSE NoTarget]

\* lines 543-582: the moved fish dies on an obstacle, or else on the target
\* it bites
FishCollisions(moved, players, obstacles) ==
    LET blocked == FirstObstacleHit(Box(moved), obstacles) > 0
        bites == /\ ~blocked
                 /\ moved.targetPlayerId # NoTarget
                 /\ players[moved.targetPlayerId].state = "descending"
                 /\ checkAABBCollision(Box(moved), Box(players[moved.targetPlayerId]))
    IN  [fish |-> [moved EXCEPT !.active = ~blocked /\ ~bites],
         damaged |-> IF bites THEN moved.targetPlayerId ELSE NoTarget]

\* one fish of updateAnglerFish: [fish, damaged] (damaged: a player id or NoTarget)
updateOneFish(f, players, obstacles) ==
    IF ~f.active THEN [fish |-> f, damaged |-> NoTarget]
    ELSE FishCollisions(MoveFish(f, FishTarget(f, players), players), players, obstacles)

\* lines 587: the fish still active and, in the order of the fish, the
\* vehicles bitten
FishAndBitten(each) ==
    LET Active(f) == f.active
        Bit(e) == e.damaged # NoTarget
        bitten == SelectSeq(each, Bit)
    IN  [fish |-> SelectSeq([k \in 1..Len(each) |-> each[k].fish], Active),
         damagedPlayers |-> [k \in 1..Len(bitten) |-> bitten[k].damaged]]

updateAnglerFish(fish, players, obstacles) ==
    FishAndBitten([k \in 1..Len(fish) |-> updateOneFish(fish[k], players, obstacles)])

\* the loop applying fish damage (lines 1005-1019), from index k
RECURSIVE FishDamage(_, _, _)
FishDamage(players, damagedPlayers, k) ==
    IF k > Len(damagedPlayers) THEN players
    ELSE LET playerId == damagedPlayers[k]
             player == players[playerId]
             newHp == player.hp - ANGLER_FISH_DAMAGE
         IN  IF player.invincibilityFrames = 0 /\ player.state = "descending"
             THEN FishDamage([players EXCEPT ![playerId] =
                                 [player EXCEPT !.hp = Max(0, newHp),
                                                !.invincibilityFrames = INVINCIBILITY_FRAMES,
                                                !.passengers =
                                                    IF newHp < player.hp
                                                    THEN killPassenger(player.passengers)
                                                    ELSE player.passengers]],
                             damagedPlayers, k + 1)
             ELSE FishDamage(players, damagedPlayers, k + 1)


(***************************************************************************)
(* updateGameState                                                         *)
(***************************************************************************)
\* the spawn interval of a pickup's x: [min, range]
PickupSpan(canvasWidth) ==
    [min |-> Px(WORLD_LEFT_BOUND + PICKUP_MARGIN),
     range |-> (getWorldRightBound(canvasWidth) - Px(PICKUP_MARGIN))
                 - Px(WORLD_LEFT_BOUND + PICKUP_MARGIN)]

\* lines 846-852, h[k] the generator's state after the k-th draw: the roll,
\* then x and the depth offset of a health pickup; st = [rng, pickups, ids]
HealthPickup(st, h, depth, span) ==
    IF RngBelowPpm(h[1], HP_PICKUP_CHANCE_PPM * SEGMENT_SIZE)
    THEN [rng |-> h[3],
          pickups |-> Append(st.pickups,
              createPickup("health", span.min + RngScale(h[2], span.range),
                           depth + RngScale(h[3], Px(SEGMENT_SIZE)), st.ids)),
          ids |-> [st.ids EXCEPT !.pickup = @ + 1]]
    ELSE [rng |-> h[1], pickups |-> st.pickups, ids |-> st.ids]

\* lines 854-859: the roll, then x, the type and the depth offset of an ammo
\* pickup
AmmoPickup(st, a, depth, span) ==
    IF RngBelowPpm(a[1], AMMO_PICKUP_CHANCE_PPM * SEGMENT_SIZE)
    THEN [rng |-> a[4],
          pickups |-> Append(st.pickups,
              createPickup(IF RngBelowPpm(a[3], AMMO_ROCKET_SHARE_PPM) THEN "rocket" ELSE "mine",
                           span.min + RngScale(a[2], span.range),
                           depth + RngScale(a[4], Px(SEGMENT_SIZE)), st.ids)),
          ids |-> [st.ids EXCEPT !.pickup = @ + 1]]
    ELSE [rng |-> a[1], pickups |-> st.pickups, ids |-> st.ids]

AmmoAfter(st, depth, span) == AmmoPickup(st, Draws(st.rng, 4), depth, span)

\* the pickup rolls of one segment starting at `depth` (lines 846-859), from
\* st = [rng, pickups, ids]
SegmentPickups(st, depth, canvasWidth) ==
    AmmoAfter(HealthPickup(st, Draws(st.rng, 3), depth, PickupSpan(canvasWidth)),
              depth, PickupSpan(canvasWidth))

\* the loop of lines 845-860 for the segments lo..hi, in order; segment k
\* starts at depth + k * segmentSize; st = [rng, pickups, ids]; halved like
\* ChunkSlots
RECURSIVE SpawnLoop(_, _, _, _, _)
SpawnLoop(st, depth, lo, hi, canvasWidth) ==
    IF lo > hi THEN st
    ELSE IF lo = hi
    THEN SegmentPickups(st, depth + lo * Px(SEGMENT_SIZE), canvasWidth)
    ELSE LET half == SpawnLoop(st, depth, lo, (lo + hi) \div 2, canvasWidth)
         IN  CASE Evaluated(half) ->
                  SpawnLoop(half, depth, (lo + hi) \div 2 + 1, hi, canvasWidth)

\* for (depth = generatedDepth; depth < targetDepth; depth += segmentSize)
SpawnPickups(rng, pickups, ids, depth, targetDepth, canvasWidth) ==
    LET segments == ((targetDepth - depth) + Px(SEGMENT_SIZE) - 1) \div Px(SEGMENT_SIZE)
        st == [rng |-> rng, pickups |-> pickups, ids |-> ids]
    IN  CASE Evaluated(st) -> SpawnLoop(st, depth, 0, segments - 1, canvasWidth)

\* lines 825-831
MaxActiveDepth(players) ==
    LET d(id) == IF IsDone(players[id]) THEN 0 ELSE players[id].y
    IN  Max(0, Max(d("player1"), d("player2")))

\* lines 862 and 1027-1042: what the growth to targetDepth leaves, g the
\* result of generateObstacles and s that of the pickup loop
GrownTo(g, s, targetDepth) ==
    CASE Evaluated(s) ->
         [rng |-> s.rng, obstacles |-> g.obstacles, pickups |-> s.pickups,
          ids |-> s.ids, generatedDepth |-> targetDepth]

\* lines 842-860: the pickup loop runs on the generator as generateObstacles
\* left it
GrowPickups(state, mod, targetDepth, g) ==
    CASE Evaluated(g) ->
         GrownTo(g, SpawnPickups(g.rng, state.pickups, mod.ids, state.generatedDepth,
                                 targetDepth, mod.canvasWidth),
                 targetDepth)

\* world growth (lines 833-863): [rng, obstacles, pickups, ids, generatedDepth]
GrowWorld(state, rng, mod) ==
    LET targetDepth == MaxActiveDepth(state.players) + Px(OBSTACLE_GENERATION_BUFFER)
    IN  IF targetDepth > state.generatedDepth
        THEN GrowPickups(state, mod, targetDepth,
                         generateObstacles(rng, state.obstacles, state.generatedDepth,
                                           targetDepth, mod.canvasWidth))
        ELSE [rng |-> rng, obstacles |-> state.obstacles, pickups |-> state.pickups,
              ids |-> mod.ids, generatedDepth |-> state.generatedDepth]

\* the chunk indexes for which the call of generateObstacles made by
\* updateGameState(state, ...) calls generateChunk (obstacleGenerator.ts
\* lines 142-151): those of the range that have no entry in state.obstacles
GrowthChunks(state) ==
    LET targetDepth == MaxActiveDepth(state.players) + Px(OBSTACLE_GENERATION_BUFFER)
    IN  IF state.gameOver \/ targetDepth <= state.generatedDepth THEN {}
        ELSE {c \in state.generatedDepth \div Px(CHUNK_SIZE)
                      .. -((-targetDepth) \div Px(CHUNK_SIZE)) :
                 ~ChunkExists(state.obstacles, c)}

\* the depths at which the segments rolled for pickups by
\* updateGameState(state, ...) start (the loop of lines 845-860)
GrowthSegments(state) ==
    LET targetDepth == MaxActiveDepth(state.players) + Px(OBSTACLE_GENERATION_BUFFER)
    IN  IF state.gameOver \/ targetDepth <= state.generatedDepth THEN {}
        ELSE {state.generatedDepth + k * Px(SEGMENT_SIZE) :
                 k \in 0..((targetDepth - state.generatedDepth) - 1) \div Px(SEGMENT_SIZE)}

\* firing that does not look at the counters
FireUncounted(playerId, input, player, otherX, projectiles, ids) ==
    IF input.action = "fireRocket" /\ player.state = "descending"
    THEN [player |-> [player EXCEPT !.rocketsRemaining = @ - 1],
          projectiles |-> Append(projectiles,
                                 createRocket(playerId, player.x, player.y, otherX, ids)),
          ids |-> [ids EXCEPT !.projectile = @ + 1]]
    ELSE IF input.action = "deployMine" /\ player.state = "descending"
    THEN [player |-> [player EXCEPT !.minesRemaining = @ - 1],
          projectiles |-> Append(projectiles, createMine(playerId, player.x, player.y, ids)),
          ids |-> [ids EXCEPT !.projectile = @ + 1]]
    ELSE [player |-> player, projectiles |-> projectiles, ids |-> ids]

\* weapon fire of one player (lines 883-949): [player, projectiles, ids]
Fire(playerId, input, player, otherX, projectiles, ids) ==
    LET rocket == /\ input.action = "fireRocket"
                  /\ player.rocketsRemaining > 0
                  /\ player.state = "descending"
        afterRocket ==
            IF rocket
            THEN [player |-> [player EXCEPT !.rocketsRemaining = @ - 1],
                  projectiles |-> Append(projectiles,
                                         createRocket(playerId, player.x, player.y, otherX, ids)),
                  ids |-> [ids EXCEPT !.projectile = @ + 1]]
            ELSE [player |-> player, projectiles |-> projectiles, ids |-> ids]
        mine == /\ input.action = "deployMine"
                /\ afterRocket.player.minesRemaining > 0
                /\ afterRocket.player.state = "descending"
    IN  IF mine
        THEN [player |-> [afterRocket.player EXCEPT !.minesRemaining = @ - 1],
              projectiles |-> Append(afterRocket.projectiles,
                                     createMine(playerId, player.x, player.y, afterRocket.ids)),
              ids |-> [afterRocket.ids EXCEPT !.projectile = @ + 1]]
        ELSE afterRocket

\* applyPickup for each pickup of `taken`, in order
RECURSIVE ApplyPickups(_, _)
ApplyPickups(player, taken) ==
    IF taken = <<>> THEN player
    ELSE ApplyPickups(applyPickup(Head(taken), player), Tail(taken))

\* pickup collisions (lines 966-985): [players, pickups]; a collected pickup
\* is marked inactive in place.  Neither the box nor the state of a vehicle
\* changes in the loop, so who collects a pickup is decided pickup by pickup:
\* player 1 if it overlaps, else player 2 if it overlaps
CollectPickups(players, pickups) ==
    LET By1(pickup) == checkPickupCollision(pickup, players.player1)
        By2(pickup) == ~By1(pickup) /\ checkPickupCollision(pickup, players.player2)
    IN  [players |-> [player1 |-> ApplyPickups(players.player1, SelectSeq(pickups, By1)),
                      player2 |-> ApplyPickups(players.player2, SelectSeq(pickups, By2))],
         pickups |-> [k \in 1..Len(pickups) |->
                         IF By1(pickups[k]) \/ By2(pickups[k])
                         THEN [pickups[k] EXCEPT !.active = FALSE] ELSE pickups[k]],
         \* the pickups applied to each vehicle, kept for the properties
         taken |-> [player1 |-> SelectSeq(pickups, By1), player2 |-> SelectSeq(pickups, By2)]]

\* lines 992-997, r1 the generator's state after the roll: [rng, anglerFish, ids]
RollAnglerFish(state, r1, ids, maxActiveDepth) ==
    LET c == createAnglerFish(r1, maxActiveDepth, ANGLER_FISH_CANVAS_WIDTH, ids)
    IN  IF RngBelowPpm(r1, Quot(ANGLER_FISH_SPAWN_CHANCE_PPM
                                  * (maxActiveDepth - Px(ANGLER_FISH_MIN_DEPTH)), Px(1)))
        THEN [rng |-> c.rng, anglerFish |-> Append(state.anglerFish, c.fish),
              ids |-> [ids EXCEPT !.anglerFish = @ + 1]]
        ELSE [rng |-> r1, anglerFish |-> state.anglerFish, ids |-> ids]

\* the fish spawn without the test of the count (line 992)
SpawnAnglerFishUncapped(state, rng, ids) ==
    IF MaxActiveDepth(state.players) > Px(ANGLER_FISH_MIN_DEPTH)
    THEN RollAnglerFish(state, RngNext(rng), ids, MaxActiveDepth(state.players))
    ELSE [rng |-> rng, anglerFish |-> state.anglerFish, ids |-> ids]

\* fish spawn (lines 991-998): [rng, anglerFish, ids]
SpawnAnglerFish(state, rng, ids) ==
    IF MaxActiveDepth(state.players) > Px(ANGLER_FISH_MIN_DEPTH)
       /\ Len(state.anglerFish) < ANGLER_FISH_MAX_COUNT
    THEN RollAnglerFish(state, RngNext(rng), ids, MaxActiveDepth(state.players))
    ELSE [rng |-> rng, anglerFish |-> state.anglerFish, ids |-> ids]

\* a generator that is not restored from the state alone: its state moves
\* with the module's pickup counter, as that of a generator shared by the
\* simulations of a process moves with what the others have drawn
RestoreSharedRng(state, mod) == Max(0, state.rngState - mod.ids.pickup)

\* const rng = createRNG(state.seed); rng.setState(state.rngState)
RestoreRng(state, mod) == setState(createRNG(state.seed), state.rngState)

\* lines 881-949: both players' weapon fire, player 1 first:
\* [players, projectiles, ids]
BothFired(f1, f2) ==
    [players |-> [player1 |-> f1.player, player2 |-> f2.player],
     projectiles |-> f2.projectiles, ids |-> f2.ids]

SecondFire(inputs, p2, f1) ==
    BothFired(f1, Fire("player2", inputs.player2, p2, f1.player.x, f1.projectiles, f1.ids))

FireBoth(inputs, p1, p2, projectiles, ids) ==
    SecondFire(inputs, p2, Fire("player1", inputs.player1, p1, p2.x, projectiles, ids))

\* the obstacles a vehicle collided with dropped from the list, as spent
\* projectiles are
MarkCollidedDropped(obstacles, p1Result, p2Result) ==
    LET allCollidedIds ==
            {p1Result.collidedObstacles[k] : k \in 1..Len(p1Result.collidedObstacles)}
            \cup {p2Result.collidedObstacles[k] : k \in 1..Len(p2Result.collidedObstacles)}
        Left(o) == o.id \notin allCollidedIds
    IN  SelectSeq(obstacles, Left)

\* lines 877-878: the obstacles a vehicle collided with are marked inactive
MarkCollided(obstacles, p1Result, p2Result) ==
    LET allCollidedIds ==
            {p1Result.collidedObstacles[k] : k \in 1..Len(p1Result.collidedObstacles)}
            \cup {p2Result.collidedObstacles[k] : k \in 1..Len(p2Result.collidedObstacles)}
    IN  [k \in 1..Len(obstacles) |->
            IF obstacles[k].id \in allCollidedIds
            THEN [obstacles[k] EXCEPT !.active = FALSE] ELSE obstacles[k]]

\* One call updateGameState(state, inputs, FIXED_DT) with the module-level
\* state `mod` = [canvasWidth, ids], stage by stage: each stage takes what the
\* statements before it computed.  The result:
\*   state  the value returned
\*   ids    the id counters after the call
\*   arg    the object passed as `state`, as the caller sees it after the call
\*   hits, damagedPlayers, collided   what the call's collision passes reported
\*
\* lines 1022-1042
TickReturn(state, world, report, collisionResult, collected, spawn, fishResult, newPlayers) ==
    LET gameOver == isGameOver(newPlayers)
        Active(p) == p.active
    IN  CASE Evaluated(newPlayers) ->
        [state |->
            [frame |-> state.frame + 1, seed |-> state.seed, rngState |-> spawn.rng,
             phase |-> IF gameOver THEN "gameover" ELSE state.phase,
             introProgress |-> state.introProgress,
             players |-> newPlayers,
             obstacles |-> collisionResult.obstacles,
             projectiles |-> collisionResult.projectiles,
             pickups |-> SelectSeq(collected.pickups, Active),
             anglerFish |-> fishResult.fish,
             gameOver |-> gameOver,
             winner |-> IF gameOver THEN determineWinner(newPlayers) ELSE NoWinner,
             generatedDepth |-> world.generatedDepth,
             currentMaxDepth |-> Max(state.currentMaxDepth,
                                     Max(newPlayers.player1.y, newPlayers.player2.y))],
         ids |-> spawn.ids,
         \* pickups = [...state.pickups] copies the list, not the pickups:
         \* `pickup.active = false` writes into the objects of the argument
         arg |-> [state EXCEPT !.pickups = SubSeq(collected.pickups, 1, Len(state.pickups))],
         hits |-> collisionResult.hits,
         damagedPlayers |-> fishResult.damagedPlayers,
         collided |-> [player1 |-> report.player1, player2 |-> report.player2],
         moved |-> report.moved,
         fired |-> report.fired,
         created |-> report.created,
         \* the pickups the collision loop went through, the vehicles as it
         \* saw them, and the pickups it applied to each
         offered |-> world.pickups,
         collectors |-> collisionResult.players,
         taken |-> collected.taken,
         \* the fish passed to updateAnglerFish, and the vehicles passed with them
         school |-> spawn.anglerFish,
         prey |-> collected.players]

\* lines 1004-1019
TickFishDamage(state, world, report, collisionResult, collected, spawn, fishResult) ==
    CASE Evaluated(fishResult) ->
         TickReturn(state, world, report, collisionResult, collected, spawn, fishResult,
                    FishDamage(collected.players, fishResult.damagedPlayers, 1))

\* lines 1000-1002
TickFish(state, world, report, collisionResult, collected, spawn) ==
    CASE Evaluated(<<collected, spawn>>) ->
         TickFishDamage(state, world, report, collisionResult, collected, spawn,
                        updateAnglerFish(spawn.anglerFish, collected.players,
                                         collisionResult.obstacles))

\* lines 965-998
TickPickups(state, world, report, ids, collisionResult) ==
    CASE Evaluated(collisionResult) ->
         TickFish(state, world, report, collisionResult,
                  CollectPickups(collisionResult.players, world.pickups),
                  SpawnAnglerFish(state, world.rng, ids))

\* lines 951-963
TickProjectiles(state, world, report, marked, fired) ==
    CASE Evaluated(<<marked, fired>>) ->
         TickPickups(state, world, report, fired.ids,
                     checkProjectileCollisions(updateProjectiles(fired.projectiles),
                                               fired.players, marked))

\* lines 876-949
TickFired(state, world, p1Result, p2Result, marked, fired) ==
    CASE Evaluated(fired) ->
         TickProjectiles(state, world,
                         \* what the tick did, kept for the properties: the
                         \* obstacles each vehicle collided with, the vehicles
                         \* as updatePlayer returned them, the vehicles after
                         \* firing, and the projectiles pushed by this tick
                         [player1 |-> p1Result.collidedObstacles,
                          player2 |-> p2Result.collidedObstacles,
                          moved |-> [player1 |-> p1Result.player, player2 |-> p2Result.player],
                          fired |-> fired.players,
                          created |-> SubSeq(fired.projectiles, Len(state.projectiles) + 1,
                                             Len(fired.projectiles))],
                         marked, fired)

TickWeapons(state, inputs, world, moving, p1Result, p2Result) ==
    CASE Evaluated(<<p1Result, p2Result>>) ->
         TickFired(state, world, p1Result, p2Result,
                   MarkCollided(moving, p1Result, p2Result),
                   FireBoth(inputs, p1Result.player, p2Result.player,
                            state.projectiles, world.ids))

\* lines 865-874
TickPlayers(state, inputs, mod, world) ==
    LET moving == updateObstacles(world.obstacles, mod.canvasWidth)
        visibleObstacles ==
            getVisibleObstacles(moving,
                                Min(state.players.player1.y, state.players.player2.y) - Px(100),
                                MaxActiveDepth(state.players) + Px(200), Px(100))
    IN  CASE Evaluated(world) ->
             TickWeapons(state, inputs, world, moving,
                         updatePlayer(state.players.player1, inputs.player1, visibleObstacles,
                                      mod.canvasWidth),
                         updatePlayer(state.players.player2, inputs.player2, visibleObstacles,
                                      mod.canvasWidth))

\* lines 811-863
Tick(state, inputs, mod) ==
    IF state.gameOver
    THEN [state |-> state, ids |-> mod.ids, arg |-> state,
          hits |-> <<>>, damagedPlayers |-> <<>>,
          collided |-> [player1 |-> <<>>, player2 |-> <<>>],
          moved |-> state.players, fired |-> state.players, created |-> <<>>,
          offered |-> <<>>, collectors |-> state.players,
          taken |-> [player1 |-> <<>>, player2 |-> <<>>],
          school |-> state.anglerFish, prey |-> state.players]
    ELSE TickPlayers(state, inputs, mod, GrowWorld(state, RestoreRng(state, mod), mod))

updateGameState(state, inputs, mod) == Tick(state, inputs, mod).state


(***************************************************************************)
(* The state machine.  A run is one process.  The module-level width has   *)
(* been set by setCanvasDimensions, createInitialState builds the game     *)
(* from a seed, and the driver calls updateGameState once per tick with    *)
(* the inputs it sampled.  A plan fixes the seed, the window width and a   *)
(* script of held inputs (a key held for n ticks); after the script the    *)
(* driver feeds any input pair of FreePairs for up to MaxFree ticks.       *)
(***************************************************************************)
VARIABLES
    plan,          \* index of the plan of this run
    ticks,         \* calls of updateGameState made on `game` so far
    game,          \* the GameState held by the driver
    prev,          \* the value passed to the last call, as it was before the call
    arg,           \* the object passed to the last call, as it is after the call
    last,          \* inputs and collision reports of the last call
    canvasWidth,   \* module-level CANVAS_WIDTH
    ids,           \* module-level id counters
    recorded,      \* the free inputs fed so far, in order
    replay,        \* a second simulation fed the same inputs (SpecReplay), or NoGame
    probe          \* one call of a function of the engine (SpecCalls), or NoProbe

vars == <<plan, ticks, game, prev, arg, last, canvasWidth, ids, recorded, replay, probe>>

NoGame == [frame |-> -1]

NoProbe == [fn |-> "none"]

MaxFree == 2

Vehicles == {"player1", "player2"}

Input(l, r, u, d, a) == [left |-> l, right |-> r, up |-> u, down |-> d, action |-> a]
NoInput == Input(FALSE, FALSE, FALSE, FALSE, "none")
HoldLeft == Input(TRUE, FALSE, FALSE, FALSE, "none")
HoldRight == Input(FALSE, TRUE, FALSE, FALSE, "none")
HoldUp == Input(FALSE, FALSE, TRUE, FALSE, "none")
HoldDown == Input(FALSE, FALSE, FALSE, TRUE, "none")
HoldDownLeft == Input(TRUE, FALSE, FALSE, TRUE, "none")
DumpBallast == Input(FALSE, FALSE, FALSE, FALSE, "dumpBallast")
FireRocket == Input(FALSE, FALSE, FALSE, FALSE, "fireRocket")
DeployMine == Input(FALSE, FALSE, FALSE, FALSE, "deployMine")

PlayerInputs ==
    {NoInput, HoldLeft, HoldRight, HoldUp, HoldDown, DumpBallast, FireRocket, DeployMine}

Both(a, b) == [player1 |-> a, player2 |-> b]

\* the input pairs of a free tick: player 1 does anything while player 2
\* idles, or player 2 acts or rises while player 1 idles
FreePairs ==
    {Both(a, NoInput) : a \in PlayerInputs}
    \cup {Both(NoInput, b) : b \in {HoldUp, DumpBallast, FireRocket, DeployMine}}

\* a script is a sequence of <<input pair, number of ticks>>
Plans ==
    << \* from the start
       [seed |-> 12345, canvasWidth |-> 300, script |-> <<>>],
       \* both rise to the surface
       [seed |-> 12345, canvasWidth |-> 300,
        script |-> << <<Both(HoldUp, HoldUp), 42>> >>],
       \* player 1 leaves at once and surfaces
       [seed |-> 12345, canvasWidth |-> 300,
        script |-> << <<Both(DumpBallast, NoInput), 1>>, <<Both(NoInput, NoInput), 8>> >>],
       \* a dive in a narrow window: pickups, fish, obstacle hits
       [seed |-> 5, canvasWidth |-> 300,
        script |-> << <<Both(HoldDown, HoldDownLeft), 284>> >>],
       [seed |-> 5, canvasWidth |-> 300,
        script |-> << <<Both(HoldDown, HoldDownLeft), 404>> >>],
       \* a dive, then both leave and rise through the obstacles
       [seed |-> 20, canvasWidth |-> 300,
        script |-> << <<Both(HoldDown, HoldDown), 300>>,
                      <<Both(DumpBallast, DumpBallast), 1>>,
                      <<Both(NoInput, NoInput), 120>> >>],
       \* both hold `up` for fifty seconds in a wide window
       [seed |-> 7, canvasWidth |-> DEFAULT_CANVAS_WIDTH,
        script |-> << <<Both(HoldUp, HoldUp), 3060>> >>],
       \* both leave at frame 30
       [seed |-> 12345, canvasWidth |-> 300,
        script |-> << <<Both(NoInput, NoInput), 30>>, <<Both(DumpBallast, DumpBallast), 1>> >>],
       \* both leave at once, and the driver keeps calling after the game is over
       [seed |-> 12345, canvasWidth |-> 300,
        script |-> << <<Both(DumpBallast, DumpBallast), 1>>, <<Both(NoInput, NoInput), 12>> >>],
       \* both fire in the same ticks, until the mines have run out
       [seed |-> 12345, canvasWidth |-> 300,
        script |-> << <<Both(FireRocket, DeployMine), 2>>, <<Both(DeployMine, FireRocket), 2>> >>],
       \* both dive with no input, but that player 1 lays its mine at tick 232
       [seed |-> 12345, canvasWidth |-> 300,
        script |-> << <<Both(NoInput, NoInput), 232>>, <<Both(DeployMine, NoInput), 1>>,
                      <<Both(NoInput, NoInput), 300>> >>],
       \* a dive held to MAX_DEPTH, where the world stops
       [seed |-> 96, canvasWidth |-> DEFAULT_CANVAS_WIDTH,
        script |-> << <<Both(HoldDown, HoldDown), 1990>> >>],
       \* the two submarines steer into one another over a pickup
       [seed |-> 26, canvasWidth |-> 300,
        script |-> << <<Both(HoldRight, HoldLeft), 13>>, <<Both(NoInput, NoInput), 10>> >>],
       \* both leave at once, with a pickup spawned upon a capsule
       [seed |-> 126, canvasWidth |-> 300,
        script |-> << <<Both(DumpBallast, DumpBallast), 1>>, <<Both(NoInput, NoInput), 3>> >>],
       \* a dive among the fish: one swims into coral upon its target
       [seed |-> 1, canvasWidth |-> 300,
        script |-> << <<Both(HoldDown, HoldDown), 330>> >>],
       \* two fish reach one submarine in the same tick
       [seed |-> 192, canvasWidth |-> 300,
        script |-> << <<Both(HoldDown, HoldDown), 330>> >>],
       \* a fish swims through an obstacle that a submarine has broken
       [seed |-> 3, canvasWidth |-> 300,
        script |-> << <<Both(HoldDown, HoldDown), 270>> >>] >>

\* the plans run as a pair of simulations
ReplayPlans == {1, 3, 4}

\* the window widths of a resize
CanvasWidths == {300, DEFAULT_CANVAS_WIDTH}

RECURSIVE ScriptLength(_)
ScriptLength(script) ==
    IF script = <<>> THEN 0 ELSE Head(script)[2] + ScriptLength(Tail(script))

RECURSIVE ScriptInput(_, _)
ScriptInput(script, n) ==
    IF n < Head(script)[2] THEN Head(script)[1]
    ELSE ScriptInput(Tail(script), n - Head(script)[2])

Module == [canvasWidth |-> canvasWidth, ids |-> ids]

NoLast == [inputs |-> Both(NoInput, NoInput), hits |-> <<>>, damagedPlayers |-> <<>>,
           collided |-> [player1 |-> <<>>, player2 |-> <<>>],
           moved |-> <<>>, fired |-> <<>>, created |-> <<>>,
           offered |-> <<>>, collectors |-> <<>>,
           taken |-> [player1 |-> <<>>, player2 |-> <<>>],
           chunks |-> {}, generated |-> {}, segments |-> {}, rolledTo |-> 0, applied |-> {},
           spawned |-> <<>>, school |-> <<>>, prey |-> <<>>, called |-> FALSE]

\* what the call t = Tick(state, inputs, ...) did, kept for the properties,
\* with what the calls before it did: generated, the chunk indexes
\* generateChunk had been called for; rolledTo, the depth at which the last
\* segment rolled for pickups ended; applied, the ids of the pickups that
\* had been applied to a vehicle; spawned, the pickups the call created
Report(state, inputs, t) ==
    LET New(pickup) == pickup.id >= ids.pickup
    IN
    [inputs |-> inputs, hits |-> t.hits, damagedPlayers |-> t.damagedPlayers,
     collided |-> t.collided, moved |-> t.moved, fired |-> t.fired, created |-> t.created,
     offered |-> t.offered, collectors |-> t.collectors, taken |-> t.taken,
     chunks |-> GrowthChunks(state),
     generated |-> last.generated \cup last.chunks,
     segments |-> GrowthSegments(state),
     rolledTo |-> IF last.segments = {} THEN last.rolledTo
                  ELSE Max(last.rolledTo,
                           (CHOOSE d \in last.segments : \A e \in last.segments : e <= d)
                             + Px(SEGMENT_SIZE)),
     applied |-> last.applied
                   \cup {last.taken.player1[k].id : k \in 1..Len(last.taken.player1)}
                   \cup {last.taken.player2[k].id : k \in 1..Len(last.taken.player2)},
     spawned |-> SelectSeq(t.offered, New),
     school |-> t.school, prey |-> t.prey,
     called |-> TRUE]

Start(plans) ==
    /\ plan \in plans
    /\ ticks = 0
    /\ canvasWidth = Plans[plan].canvasWidth
    /\ ids = [projectile |-> 0, pickup |-> 0, anglerFish |-> 0]
    /\ game = createInitialState([seed |-> Plans[plan].seed], canvasWidth)
    /\ prev = game
    /\ arg = game
    /\ last = NoLast
    /\ recorded = <<>>
    /\ probe = NoProbe

Init == Start(1..Len(Plans)) /\ replay = NoGame

\* one call newState = updateGameState(newState, frameInputs, FIXED_DT)
Call(inputs) ==
    \E t \in {Tick(game, inputs, Module)} :
        /\ game' = t.state
        /\ prev' = game
        /\ arg' = t.arg
        /\ ids' = t.ids
        /\ last' = Report(game, inputs, t)
        /\ ticks' = ticks + 1

Scripted == ticks < ScriptLength(Plans[plan].script)

TickScripted ==
    /\ Scripted
    /\ Call(ScriptInput(Plans[plan].script, ticks))
    /\ UNCHANGED <<plan, canvasWidth, recorded, replay, probe>>

TickFree ==
    /\ ~Scripted
    /\ Len(recorded) < MaxFree
    /\ \E inputs \in FreePairs :
          /\ Call(inputs)
          /\ recorded' = Append(recorded, inputs)
    /\ UNCHANGED <<plan, canvasWidth, replay, probe>>

Next == TickScripted \/ TickFree

Spec == Init /\ [][Next]_vars

(***************************************************************************)
(* A run to its end.  Both vehicles have left as capsules when the script  *)
(* is over; the game loop then goes on calling updateGameState, with any   *)
(* input pair of RunPairs, until the game is over (GameView requests the   *)
(* next animation frame while the state is not gameOver).  MaxRunTicks     *)
(* caps the length of a run.                                               *)
(***************************************************************************)
RunPlans == {6, 8, 9}

RunPairs ==
    {Both(NoInput, NoInput), Both(HoldUp, HoldDown), Both(HoldLeft, HoldLeft),
     Both(DumpBallast, DumpBallast)}

MaxRunTicks == 600

Running == Scripted \/ (~game.gameOver /\ ticks < MaxRunTicks)

TickOn ==
    /\ ~Scripted
    /\ Running
    /\ \E inputs \in RunPairs : Call(inputs)
    /\ UNCHANGED <<plan, canvasWidth, recorded, replay, probe>>

NextRun == TickScripted \/ TickOn

InitRun == Start(RunPlans) /\ replay = NoGame

\* the loop's next call: every step of NextRun is one, and one is possible
\* in every state where the loop is running (updateGameState is total)
Advance == Running /\ ticks' = ticks + 1

SpecRun == InitRun /\ [][NextRun]_vars /\ WF_ticks(Advance)

(***************************************************************************)
(* Two simulations in one process, as the determinism tests run them: both *)
(* are created from the same seed and each tick calls updateGameState on   *)
(* the first and then on the second with the same inputs.  The id counters *)
(* and the canvas width are the module's, shared by both.                  *)
(***************************************************************************)
InitReplay ==
    /\ Start(ReplayPlans)
    /\ replay = [state |-> createInitialState([seed |-> Plans[plan].seed], canvasWidth),
                 prev |-> game]

\* state1 = updateGameState(state1, inputs, dt); state2 = updateGameState(state2, inputs, dt)
CallBoth(inputs) ==
    \E t \in {Tick(game, inputs, Module)} :
    \E u \in {Tick(replay.state, inputs, [canvasWidth |-> canvasWidth, ids |-> t.ids])} :
        /\ game' = t.state
        /\ prev' = game
        /\ arg' = t.arg
        /\ replay' = [state |-> u.state, prev |-> replay.state]
        /\ ids' = u.ids
        /\ last' = Report(game, inputs, t)
        /\ ticks' = ticks + 1

TickBothScripted ==
    /\ Scripted
    /\ CallBoth(ScriptInput(Plans[plan].script, ticks))
    /\ UNCHANGED <<plan, canvasWidth, recorded, probe>>

TickBothFree ==
    /\ ~Scripted
    /\ Len(recorded) < MaxFree
    /\ \E inputs \in FreePairs :
          /\ CallBoth(inputs)
          /\ recorded' = Append(recorded, inputs)
    /\ UNCHANGED <<plan, canvasWidth, probe>>

\* setCanvasDimensions(width, height): the window is resized once, when the
\* script has run and before the free inputs
SetCanvasDimensions ==
    /\ ~Scripted
    /\ recorded = <<>>
    /\ canvasWidth = Plans[plan].canvasWidth
    /\ \E width \in CanvasWidths \ {canvasWidth} : canvasWidth' = width
    /\ UNCHANGED <<plan, ticks, game, prev, arg, last, ids, recorded, replay, probe>>

NextReplay == TickBothScripted \/ TickBothFree \/ SetCanvasDimensions

SpecReplay == InitReplay /\ [][NextReplay]_vars

(***************************************************************************)
(* Two simulations of one seed whose inputs differ in player 1's           *)
(* horizontal keys only, as the input test runs them: in the first player  *)
(* 1 holds `left`, in the second `right`; everything else of the inputs is *)
(* the same in both.                                                       *)
(***************************************************************************)
PairPlans == {3, 4, 6, 11}

Steer(inputs, left, right) ==
    [inputs EXCEPT !.player1.left = left, !.player1.right = right]

\* s1 = updateGameState(s1, inputs1, FIXED_DT); s2 = updateGameState(s2, inputs2, FIXED_DT)
CallPair(inputs) ==
    \E t \in {Tick(game, Steer(inputs, TRUE, FALSE), Module)} :
    \E u \in {Tick(replay.state, Steer(inputs, FALSE, TRUE),
                   [canvasWidth |-> canvasWidth, ids |-> t.ids])} :
        /\ game' = t.state
        /\ prev' = game
        /\ arg' = t.arg
        /\ replay' = [state |-> u.state, prev |-> replay.state]
        /\ ids' = u.ids
        /\ last' = Report(game, inputs, t)
        /\ ticks' = ticks + 1

TickPairScripted ==
    /\ Scripted
    /\ CallPair(ScriptInput(Plans[plan].script, ticks))
    /\ UNCHANGED <<plan, canvasWidth, recorded, probe>>

TickPairFree ==
    /\ ~Scripted
    /\ Len(recorded) < MaxFree
    /\ \E inputs \in FreePairs :
          /\ CallPair(inputs)
          /\ recorded' = Append(recorded, inputs)
    /\ UNCHANGED <<plan, canvasWidth, probe>>

InitPair ==
    /\ Start(PairPlans)
    /\ replay = [state |-> game, prev |-> game]

NextPair == TickPairScripted \/ TickPairFree

SpecPair == InitPair /\ [][NextPair]_vars

(***************************************************************************)
(* Properties.  Those about one call of updateGameState read the call's    *)
(* argument (prev), its result (game) and its inputs (last).               *)
(***************************************************************************)
Live(p) == p.state = "descending" \/ p.state = "ascending"

\* the fields of a simulation that the determinism tests compare
Observed(state) ==
    [frame |-> state.frame, rngState |-> state.rngState,
     obstacles |-> Len(state.obstacles),
     players |-> [id \in Vehicles |->
                    [x |-> state.players[id].x, y |-> state.players[id].y,
                     wear |-> state.players[id].wear]]]

C2_NoHiddenState == (last.called /\ replay.prev = prev) => replay.state = game

\* C3: after a call, every field of the state passed to updateGameState has
\* the value it had before the call
C3_InputUnchanged == arg = prev

\* C4: a vehicle that is Dead or Escaped at the start of a tick keeps every
\* field but implosionFrame, which stays or grows by one and is at most 60
C4_Terminal ==
    \A id \in Vehicles :
        LET p == prev.players[id]
            q == game.players[id]
        IN  (last.called /\ IsDone(p)) =>
                /\ [q EXCEPT !.implosionFrame = p.implosionFrame] = p
                /\ q.implosionFrame \in {p.implosionFrame, p.implosionFrame + 1}
                /\ q.implosionFrame <= IMPLOSION_FRAMES

\* a tick of a running game has advanced the implosion of a dead vehicle
\* while the other vehicle was still under way
C4_Witness ==
    \E id \in Vehicles :
        /\ last.called
        /\ prev.players[id].state = "dead"
        /\ Live(prev.players[OtherPlayer(id)])
        /\ game.players[id].implosionFrame = prev.players[id].implosionFrame + 1

\* C5: in every state returned by updateGameState a Descending or Ascending
\* vehicle has hp > 0 and wear < 100
C5_DeathGates ==
    \A id \in Vehicles :
        Live(game.players[id]) =>
            game.players[id].hp > 0 /\ game.players[id].wear < Wear(WEAR_LIMIT)

\* C6: each vehicle's wear lies in [0, 100]
C6_WearRange ==
    \A id \in Vehicles :
        game.players[id].wear >= 0 /\ game.players[id].wear <= Wear(WEAR_LIMIT)

\* C7: each vehicle's hp lies in [0, SUB_STARTING_HP]
C7_HpRange ==
    \A id \in Vehicles :
        game.players[id].hp >= 0 /\ game.players[id].hp <= SUB_STARTING_HP

\* C8: each vehicle's depth y is >= 0
C8_DepthNonNegative == \A id \in Vehicles : game.players[id].y >= 0

\* vehicle id was Descending at the start of the last tick and its action
\* for the tick was dump-ballast
Dumped(id) ==
    /\ last.called
    /\ prev.players[id].state = "descending"
    /\ last.inputs[id].action = "dumpBallast"

\* the capsule that the dump-ballast action leaves
IsFreshCapsule(q) ==
    /\ q.hp = CAPSULE_HP
    /\ q.width = Px(CAPSULE_WIDTH)
    /\ q.height = Px(CAPSULE_HEIGHT)
    /\ q.wear = 0
    /\ q.invincibilityFrames = INVINCIBILITY_FRAMES
    /\ q.passengers = <<>>

\* the state of the other vehicle is the one the tick returns for it when
\* vehicle id does not dump ballast
OtherUnaffected(id) ==
    LET idle == [last.inputs EXCEPT ![id].action = "none"]
    IN  game.players[OtherPlayer(id)].state
            = updateGameState(prev, idle, Module).players[OtherPlayer(id)].state

\* the ascent of the tick takes a vehicle at depth y to the surface
Surfaces(y) == y - PerTick(ASCENT_SPEED) <= 0

\* C9 as claimed: a Descending vehicle whose action is dump-ballast is
\* Ascending in the state returned by that tick, a fresh capsule, and the
\* other player's state is not changed by the action
C9_DumpGivesAscending ==
    \A id \in Vehicles :
        Dumped(id) =>
            /\ game.players[id].state = "ascending"
            /\ IsFreshCapsule(game.players[id])
            /\ OtherUnaffected(id)

\* C9 amended: the vehicle is a fresh capsule, Ascending, or Escaped at
\* depth 0 when the ascent of that same tick takes it to the surface; the
\* other player's state is not changed by the action
C9_DumpGivesCapsule ==
    \A id \in Vehicles :
        Dumped(id) =>
            /\ IF Surfaces(prev.players[id].y)
               THEN game.players[id].state = "escaped" /\ game.players[id].y = 0
               ELSE game.players[id].state = "ascending"
            /\ IsFreshCapsule(game.players[id])
            /\ OtherUnaffected(id)

\* a worn, damaged submarine has dumped ballast next to a descending one
C9_Witness ==
    \E id \in Vehicles :
        /\ Dumped(id)
        /\ prev.players[id].wear > 0
        /\ prev.players[id].hp > CAPSULE_HP
        /\ game.players[id].state = "ascending"
        /\ game.players[OtherPlayer(id)].state = "descending"

\* the change of state of vehicle id over the last tick is one of the edges
\* Descending->Ascending (on dump-ballast), Descending->Dead,
\* Ascending->Dead, Ascending->Escaped (the ascent reaches the surface)
ClaimedEdge(id) ==
    LET from == prev.players[id].state
        to == game.players[id].state
    IN  \/ from = to
        \/ from = "descending" /\ to = "ascending" /\ Dumped(id)
        \/ from = "descending" /\ to = "dead"
        \/ from = "ascending" /\ to = "dead"
        \/ from = "ascending" /\ to = "escaped" /\ Surfaces(prev.players[id].y)

\* Descending->Escaped: ballast dumped within one tick's ascent of the surface
SurfaceDumpEdge(id) ==
    /\ Dumped(id)
    /\ game.players[id].state = "escaped"
    /\ Surfaces(prev.players[id].y)

\* deathCause is set exactly when the state is Dead, and becomes
\* CrashedAscent only in a tick in which the Ascending vehicle hit an obstacle
DeathCauseRule(id) ==
    /\ (game.players[id].deathCause # NoCause) <=> (game.players[id].state = "dead")
    /\ (/\ game.players[id].deathCause = "crashedAscent"
        /\ prev.players[id].deathCause # "crashedAscent")
           => /\ prev.players[id].state = "ascending"
              /\ last.collided[id] # <<>>

\* C10 as claimed: a vehicle's state changes only along the four edges, and
\* deathCause follows the rule
C10_Edges == \A id \in Vehicles : ClaimedEdge(id) /\ DeathCauseRule(id)

\* C10 amended: the four edges and Descending->Escaped on a dump-ballast
\* action at the surface; a vehicle never returns to Descending; deathCause
\* follows the rule
C10_EdgesWithSurfaceDump ==
    \A id \in Vehicles :
        /\ ClaimedEdge(id) \/ SurfaceDumpEdge(id)
        /\ DeathCauseRule(id)

\* an Ascending capsule has just crashed into an obstacle
C10_Witness ==
    \E id \in Vehicles :
        /\ last.called
        /\ prev.players[id].state = "ascending"
        /\ game.players[id].state = "dead"
        /\ game.players[id].deathCause = "crashedAscent"

\* vehicle id was Ascending before the last tick and still is: it has risen
AscentStep(id) ==
    (/\ last.called
     /\ prev.players[id].state = "ascending"
     /\ game.players[id].state = "ascending")
        => game.players[id].y < prev.players[id].y

\* C11 as claimed: an Ascending vehicle's depth strictly decreases on every
\* tick while it remains Ascending, whatever the input, and the vehicle
\* reaches Escaped within the ticks of a run
C11_AscentEscapes ==
    /\ [](\A id \in Vehicles : AscentStep(id))
    /\ \A id \in Vehicles :
          (game.players[id].state = "ascending") ~> (game.players[id].state = "escaped")

\* C11 amended: the depth strictly decreases on every tick while the vehicle
\* remains Ascending, and within the ticks of a run the vehicle has left
\* Ascending: Escaped at the surface, or Dead on an obstacle it hit
C11_AscentEnds ==
    /\ [](\A id \in Vehicles : AscentStep(id))
    /\ \A id \in Vehicles :
          (game.players[id].state = "ascending") ~> IsDone(game.players[id])

\* a capsule steered during its rise reaches the surface
C11_Witness ==
    \E id \in Vehicles :
        /\ last.called
        /\ last.inputs[id] # NoInput
        /\ prev.players[id].state = "ascending"
        /\ game.players[id].state = "escaped"

\* the frame of the early dump of the run-to-end test
DumpFrame == 30

\* both players were given a dump-ballast action by the last call, no later
\* than the frame of the test
BothDumpEarly ==
    /\ last.called
    /\ ticks <= DumpFrame + 1
    /\ \A id \in Vehicles : last.inputs[id].action = "dumpBallast"

\* C12: when both players are given a dump-ballast action near the start of
\* a run, the run reaches a state with gameOver true and a winner that is
\* not null within the ticks of a run
C12_BothDumpEnds == BothDumpEarly ~> (game.gameOver /\ game.winner # NoWinner)

\* both capsules have reached the surface after a dump at frame 30, and the
\* game is over with a result
C12_Witness ==
    /\ plan = 8
    /\ ticks > DumpFrame + 1
    /\ \A id \in Vehicles : game.players[id].state = "escaped"
    /\ game.gameOver
    /\ game.winner # NoWinner

\* C13: in every state returned by updateGameState, gameOver is true exactly
\* when both vehicles are Dead or Escaped, winner is not null exactly when
\* gameOver is true, and a call made on a state that is gameOver returns
\* that state unchanged, its frame included
C13_GameOver ==
    /\ game.gameOver <=> \A id \in Vehicles : IsDone(game.players[id])
    /\ game.winner # NoWinner <=> game.gameOver
    /\ (last.called /\ prev.gameOver) => (game = prev /\ game.frame = prev.frame)

\* a call made after the game was over, and one that ended the game
C13_Witness ==
    /\ last.called
    /\ prev.gameOver
    /\ game.gameOver
    /\ game.frame < ticks

(***************************************************************************)
(* Single calls of functions of the engine, on arguments drawn from small  *)
(* sets; probe holds the arguments and the result of the call.  A run      *)
(* makes one call.                                                         *)
(***************************************************************************)
MaxProbeDepth == 5

EndStates == {"dead", "escaped"}

Finished(state, maxDepthReached) == [state |-> state, maxDepthReached |-> maxDepthReached]

UnchangedGame == UNCHANGED <<plan, ticks, game, prev, arg, last, canvasWidth, ids, recorded, replay>>

\* winner = determineWinner(newPlayers), on two vehicles that are done
CallDetermineWinner ==
    /\ probe = NoProbe
    /\ \E s1 \in EndStates, s2 \in EndStates, d1 \in 0..MaxProbeDepth, d2 \in 0..MaxProbeDepth :
          \E players \in {[player1 |-> Finished(s1, d1), player2 |-> Finished(s2, d2)]} :
              probe' = [fn |-> "determineWinner", players |-> players,
                        result |-> determineWinner(players)]
    /\ UnchangedGame

MaxProbeProjectiles == 3

\* two places far apart: player 1 is at place 0, player 2 at place 1
Places == {0, 1}

PlaceX(place) == place * Px(DEFAULT_CANVAS_WIDTH)

\* a vehicle as the projectile pass may find it
Conditions == {"open", "invincible", "capsule", "dead", "escaped"}

ProbePlayer(place, condition) ==
    LET player == createPlayer(PlaceX(place))
    IN  CASE condition = "open" -> player
          [] condition = "invincible" ->
                [player EXCEPT !.invincibilityFrames = INVINCIBILITY_FRAMES]
          [] condition = "capsule" ->
                [Capsule(player) EXCEPT !.invincibilityFrames = 0]
          [] condition = "dead" ->
                [player EXCEPT !.state = "dead", !.deathCause = "imploded", !.hp = 0,
                               !.implosionFrame = 1, !.passengers = killAll(@)]
          [] condition = "escaped" ->
                [Capsule(player) EXCEPT !.state = "escaped", !.y = 0]

\* a projectile lying on the vehicle of a place: a rocket of player 1, a
\* mine of player 2, or a rocket that was already spent
Shots ==
    {[ownerId |-> id, place |-> place, active |-> TRUE] : id \in Vehicles, place \in Places}
    \cup {[ownerId |-> "player1", place |-> 1, active |-> FALSE]}

ProbeProjectile(k, shot) ==
    LET at == [projectile |-> k]
        made == IF shot.ownerId = "player1"
                THEN createRocket("player1", 0, 0, 1, at)
                ELSE createMine("player2", 0, 0, at)
    IN  [made EXCEPT !.x = PlaceX(shot.place), !.y = Px(PLAYER_START_Y),
                     !.active = shot.active]

ProbeObstacle(j, place) ==
    [id |-> generateObstacleId(0, j), type |-> "coral",
     x |-> PlaceX(place), y |-> Px(PLAYER_START_Y),
     width |-> Px(SUB_WIDTH), height |-> Px(SUB_HEIGHT),
     velocityX |-> 0, velocityY |-> 0, active |-> TRUE]

\* up to two obstacles, each on a place
ObstaclePlaces == {<<>>} \cup {<<a>> : a \in Places} \cup {<<a, b>> : a \in Places, b \in Places}

ProbeArgs(shots, c1, c2, where) ==
    [projectiles |-> [k \in 1..Len(shots) |-> ProbeProjectile(k, shots[k])],
     players |-> [player1 |-> ProbePlayer(0, c1), player2 |-> ProbePlayer(1, c2)],
     obstacles |-> [j \in 1..Len(where) |-> ProbeObstacle(j, where[j])]]

\* collisionResult = checkProjectileCollisions(updatedProjectiles, players, obstacles)
CallCheckProjectileCollisions ==
    /\ probe = NoProbe
    /\ \E n \in 1..MaxProbeProjectiles :
       \E shots \in [1..n -> Shots], c1 \in Conditions, c2 \in Conditions,
          where \in ObstaclePlaces :
          \E args \in {ProbeArgs(shots, c1, c2, where)} :
              probe' = [fn |-> "checkProjectileCollisions",
                        projectiles |-> args.projectiles, players |-> args.players,
                        obstacles |-> args.obstacles,
                        result |-> checkProjectileCollisions(args.projectiles, args.players,
                                                             args.obstacles)]
    /\ UnchangedGame

\* the seeds of the generator tests, and one whose draws reach 0
ProbeSeeds == {33333, 11111, 7599271}

\* depth ranges [fromDepth, toDepth] in px: near the surface, further down,
\* and at MAX_DEPTH, below which no obstacle type is available
ProbeRanges == {<<0, 200>>, <<200, 400>>, <<150, 300>>, <<MAX_DEPTH, MAX_DEPTH>>}

\* the lists a caller holds: none yet, or what an earlier call returned
ProbeLists(seed, width) ==
    {[rng |-> createRNG(seed), obstacles |-> <<>>]}
    \cup {generateObstacles(createRNG(seed), <<>>, 0, Px(range[2]), width) : range \in ProbeRanges}

\* obstacles = generateObstacles(rng, obstacles, fromDepth, toDepth), and the
\* same call made again on what it returned, with the generator as it left it
GenerateTwice(held, fromDepth, toDepth, width, result) ==
    [fn |-> "generateObstacles", currentObstacles |-> held.obstacles,
     fromDepth |-> fromDepth, toDepth |-> toDepth, result |-> result.obstacles,
     again |-> generateObstacles(result.rng, result.obstacles, fromDepth, toDepth,
                                 width).obstacles]

CallGenerateObstacles ==
    /\ probe = NoProbe
    /\ \E seed \in ProbeSeeds, range \in ProbeRanges :
       \E held \in ProbeLists(seed, canvasWidth) :
          probe' = GenerateTwice(held, Px(range[1]), Px(range[2]), canvasWidth,
                                 generateObstacles(held.rng, held.obstacles, Px(range[1]),
                                                   Px(range[2]), canvasWidth))
    /\ UnchangedGame

\* two callers that hold generators in the same state and the same list
\* make the same call one after the other; the window may have been resized
\* (setCanvasDimensions) between the two calls
GeneratePair(held, fromDepth, toDepth, width, resized) ==
    [fn |-> "generateObstacles pair", width |-> width, resized |-> resized,
     currentObstacles |-> held.obstacles,
     first |-> generateObstacles(held.rng, held.obstacles, fromDepth, toDepth, width),
     second |-> generateObstacles(held.rng, held.obstacles, fromDepth, toDepth, resized)]

CallGeneratePair ==
    /\ probe = NoProbe
    /\ \E seed \in ProbeSeeds, range \in ProbeRanges, resized \in CanvasWidths :
       \E held \in ProbeLists(seed, canvasWidth) :
          probe' = GeneratePair(held, Px(range[1]), Px(range[2]), canvasWidth, resized)
    /\ UnchangedGame

InitCalls == Start({1}) /\ replay = NoGame

NextCalls ==
    \/ CallDetermineWinner
    \/ CallCheckProjectileCollisions
    \/ CallGenerateObstacles
    \/ CallGeneratePair

SpecCalls == InitCalls /\ [][NextCalls]_vars

(***************************************************************************)
(* Generators as objects (src/src/engine/rng.ts).  A program holds up to   *)
(* MaxRngObjects SeededRNG objects and makes up to MaxRngCalls calls of    *)
(* createRNG and of their methods, in any order.  probe.rngs[i] is the     *)
(* private `state` field of object i; an object is referred to by its      *)
(* index, so that two references are the same object exactly when the      *)
(* indexes are equal.                                                      *)
(***************************************************************************)
MaxRngCalls == 4

MaxRngObjects == 2

\* the outputs compared when two generators are said to produce the same
\* sequence
MaxDraws == 3

\* the seeds of the tests (12345, 54321), of clone() (1), zero, a pair of
\* opposite seeds, one whose first draw is 0, and seeds of 2^31 and above
RngSeeds ==
    {WideSeed(FALSE, 0, 0), WideSeed(FALSE, 0, 1), WideSeed(FALSE, 0, 5), WideSeed(TRUE, 0, 5),
     WideSeed(FALSE, 0, 12345), WideSeed(FALSE, 0, 54321), WideSeed(TRUE, 0, 601690112),
     WideSeed(FALSE, 1, 0), WideSeed(FALSE, 2, 12345), WideSeed(TRUE, 1, LCG_M_MINUS_1)}

PickLists == {<<>>, <<"a">>, <<"a", "b", "c", "d", "e">>}

\* the objects held: rngs their states, built how each got the state it
\* started from, seeds the seed each was constructed with, outputs the states
\* its draws have left it in since (next() returns state / LCG_M)
Held ==
    IF probe.fn = "rng" THEN probe
    ELSE [rngs |-> <<>>, built |-> <<>>, seeds |-> <<>>, outputs |-> <<>>, calls |-> 0]

Objects == 1..Len(Held.rngs)

\* the record of a call `name` on object `on`, which left the objects as
\* rngs, built, seeds, outputs
Called(name, on, given, result, rngs, built, seeds, outputs) ==
    [fn |-> "rng", call |-> name, on |-> on, given |-> given, result |-> result,
     before |-> Held.rngs, rngs |-> rngs, built |-> built, seeds |-> seeds,
     outputs |-> outputs, calls |-> Held.calls + 1]

MoreCalls == Held.calls < MaxRngCalls

\* rng = createRNG(seed)
RngCreate ==
    /\ MoreCalls
    /\ Len(Held.rngs) < MaxRngObjects
    /\ \E seed \in RngSeeds :
          probe' = Called("createRNG", 0, seed, Len(Held.rngs) + 1,
                          Append(Held.rngs, SeededRNG(seed)),
                          Append(Held.built, "createRNG"),
                          Append(Held.seeds, seed),
                          Append(Held.outputs, <<>>))
    /\ UnchangedGame

\* rng.next()
RngDraw ==
    /\ MoreCalls
    /\ \E i \in Objects :
          probe' = Called("next", i, <<>>, RngNext(Held.rngs[i]),
                          [Held.rngs EXCEPT ![i] = RngNext(Held.rngs[i])],
                          Held.built, Held.seeds,
                          [Held.outputs EXCEPT ![i] = Append(@, RngNext(Held.rngs[i]))])
    /\ UnchangedGame

\* s = other.getState(); rng.setState(s)
RngRestore ==
    /\ MoreCalls
    /\ \E i \in Objects, j \in Objects :
          probe' = Called("setState", i, [from |-> j, state |-> Held.rngs[j]], <<>>,
                          [Held.rngs EXCEPT ![i] = setState(Held.rngs[i], Held.rngs[j])],
                          [Held.built EXCEPT ![i] = "setState"], Held.seeds,
                          [Held.outputs EXCEPT ![i] = <<>>])
    /\ UnchangedGame

\* cloned = rng.clone(): a new object, constructed with seed 1
RngClone ==
    /\ MoreCalls
    /\ Len(Held.rngs) < MaxRngObjects
    /\ \E i \in Objects :
          probe' = Called("clone", i, <<>>, Len(Held.rngs) + 1,
                          Append(Held.rngs, clone(Held.rngs[i])),
                          Append(Held.built, "clone"),
                          Append(Held.seeds, WideSeed(FALSE, 0, 1)),
                          Append(Held.outputs, <<>>))
    /\ UnchangedGame

\* rng.pick(array)
RngPick ==
    /\ MoreCalls
    /\ \E i \in Objects, array \in PickLists :
       \E picked \in {pick(Held.rngs[i], array)} :
          probe' = Called("pick", i, array, picked.result,
                          [Held.rngs EXCEPT ![i] = picked.state],
                          Held.built, Held.seeds,
                          IF Len(array) = 0 THEN Held.outputs
                          ELSE [Held.outputs EXCEPT ![i] = Append(@, picked.state)])
    /\ UnchangedGame

InitRng == Start({1}) /\ replay = NoGame

NextRng == RngCreate \/ RngDraw \/ RngRestore \/ RngClone \/ RngPick

SpecRng == InitRng /\ [][NextRng]_vars

CreatedBy(id, type) ==
    {k \in 1..Len(last.created) :
        last.created[k].ownerId = id /\ last.created[k].type = type}

\* the weapon of the last tick for one player, with its action and counter:
\* a projectile only on that action, from a vehicle that is Descending
\* after its update, with a counter above zero; the counter drops by the
\* number of projectiles created, which is at most one
Weapon(id, type, action, counter) ==
    LET n == Cardinality(CreatedBy(id, type))
    IN  /\ n <= 1
        /\ n = 1 => /\ last.inputs[id].action = action
                    /\ last.moved[id].state = "descending"
                    /\ last.moved[id][counter] > 0
        /\ last.fired[id][counter] = last.moved[id][counter] - n
        /\ last.fired[id][counter] >= 0

\* C15: a rocket or a mine is created for a player only if that player's
\* action is fireRocket or deployMine, the vehicle is Descending after its
\* update of the tick, and the matching counter is above zero; each creation
\* lowers that counter by exactly 1 and adds exactly one projectile owned by
\* that player; the counters are never negative
C15_Firing ==
    /\ \A id \in Vehicles :
          /\ game.players[id].rocketsRemaining >= 0
          /\ game.players[id].minesRemaining >= 0
    /\ last.called =>
          /\ \A id \in Vehicles :
                /\ Weapon(id, "rocket", "fireRocket", "rocketsRemaining")
                /\ Weapon(id, "mine", "deployMine", "minesRemaining")
          /\ \A k \in 1..Len(last.created) :
                /\ last.created[k].ownerId \in Vehicles
                /\ last.created[k].type \in {"rocket", "mine"}
          /\ Len(last.created) =
                Cardinality(UNION {CreatedBy(id, type) : id \in Vehicles, type \in {"rocket", "mine"}})

\* a tick in which player 1, Descending with no mine left, asks for a mine
\* and gets none, while player 2 fires the one projectile of the tick
C15_Witness ==
    /\ last.called
    /\ last.inputs.player1.action = "deployMine"
    /\ last.moved.player1.state = "descending"
    /\ last.moved.player1.minesRemaining = 0
    /\ last.inputs.player2.action = "fireRocket"
    /\ Cardinality(CreatedBy("player2", "rocket")) = 1
    /\ last.created = <<last.created[1]>>

Shot == probe.fn = "checkProjectileCollisions"

\* the hits of the last call that name projectile id, as indices of the list
HitsOf(id) == {h \in 1..Len(probe.result.hits) : probe.result.hits[h].projectileId = id}

HitsOn(targetType) ==
    {h \in 1..Len(probe.result.hits) : probe.result.hits[h].targetType = targetType}

\* the obstacles the last call deactivated
Destroyed ==
    {j \in 1..Len(probe.obstacles) : probe.obstacles[j].active /\ ~probe.result.obstacles[j].active}

\* a projectile overlaps a vehicle or an obstacle
Overlaps(proj, e) == checkAABBCollision(Box(proj), Box(e))

\* C16: in one call of checkProjectileCollisions a projectile hits at most
\* one target: one that destroys an obstacle registers no hit on a player
\* and leaves the players as they were, and it deactivates one obstacle only
C16_OneTarget ==
    Shot =>
        /\ \A k \in 1..Len(probe.projectiles) : Cardinality(HitsOf(probe.projectiles[k].id)) <= 1
        /\ Len(probe.result.obstacles) = Len(probe.obstacles)
        /\ Cardinality(Destroyed) = Cardinality(HitsOn("obstacle"))
        /\ \A h \in HitsOn("obstacle") :
              \E j \in Destroyed : probe.obstacles[j].id = probe.result.hits[h].targetId
        /\ \A id \in Vehicles :
              probe.result.players[id] # probe.players[id]
                 => \E h \in HitsOn("player") : probe.result.hits[h].targetId = id

\* a mine lies on an obstacle and on the open enemy: the obstacle goes and
\* the enemy is untouched
C16_Witness ==
    /\ Shot
    /\ Len(probe.projectiles) = 1
    /\ probe.players.player1.state = "descending"
    /\ probe.players.player1.invincibilityFrames = 0
    /\ probe.projectiles[1].ownerId = "player2"
    /\ Overlaps(probe.projectiles[1], probe.players.player1)
    /\ Cardinality(Destroyed) = 1
    /\ probe.result.players = probe.players

\* the projectile of a hit
ShotOf(h) ==
    CHOOSE k \in 1..Len(probe.projectiles) :
        probe.projectiles[k].id = probe.result.hits[h].projectileId

\* C17: a projectile never damages its owner: every player hit is a hit on
\* the opponent of the projectile's owner, who was not Dead, not Escaped and
\* not invincible; a vehicle is hit by at most one projectile per call and
\* loses that projectile's damage, whatever else overlaps it
C17_EnemyOnly ==
    Shot =>
        /\ \A h \in HitsOn("player") :
              LET proj == probe.projectiles[ShotOf(h)]
                  target == probe.result.hits[h].targetId
              IN  /\ target = OtherPlayer(proj.ownerId)
                  /\ target # proj.ownerId
                  /\ proj.active
                  /\ ~IsDone(probe.players[target])
                  /\ probe.players[target].invincibilityFrames = 0
                  /\ Overlaps(proj, probe.players[target])
                  /\ probe.result.players[target].hp
                        = Max(0, probe.players[target].hp - proj.damage)
        /\ \A id \in Vehicles :
              /\ Cardinality({h \in HitsOn("player") : probe.result.hits[h].targetId = id}) <= 1
              /\ (\A h \in HitsOn("player") : probe.result.hits[h].targetId # id)
                    => probe.result.players[id] = probe.players[id]

\* three rockets of player 1 lie on the open player 2, and a mine of
\* player 2 among them lies on its owner: one rocket hits, once
C17_Witness ==
    /\ Shot
    /\ Len(probe.projectiles) = 3
    /\ probe.obstacles = <<>>
    /\ probe.players.player2.state = "descending"
    /\ probe.players.player2.invincibilityFrames = 0
    /\ \A k \in 1..2 : /\ probe.projectiles[k].ownerId = "player1"
                        /\ probe.projectiles[k].active
                        /\ Overlaps(probe.projectiles[k], probe.players.player2)
    /\ probe.projectiles[3].ownerId = "player2"
    /\ Overlaps(probe.projectiles[3], probe.players.player2)
    /\ probe.result.players.player2.hp = probe.players.player2.hp - SMALL_ROCKET_DAMAGE
    /\ Len(probe.result.hits) = 1

\* what the input test compares of a vehicle, and its state
Trajectory(player) == [x |-> player.x, y |-> player.y, state |-> player.state]

\* C18 as claimed: with player 1 steering left in one run and right in the
\* other, and all other inputs equal, player 2 has the same x, y and state
\* in both runs at every tick
C18_SameTrajectory ==
    Trajectory(game.players.player2) = Trajectory(replay.state.players.player2)

\* C18 amended: player 1's x is what the changed input changes; player 2
\* has the same x and y in both runs at every tick at which it is
\* Descending or Ascending in both
C18_SamePosition ==
    /\ (Live(game.players.player2) /\ Live(replay.state.players.player2))
          => /\ game.players.player2.x = replay.state.players.player2.x
             /\ game.players.player2.y = replay.state.players.player2.y
    /\ game.players.player1.x <= replay.state.players.player1.x

\* player 1 has steered apart in the two runs and player 2, on the same
\* path in both, has lost hit points in one of them only
C18_Witness ==
    /\ last.called
    /\ game.players.player1.x < replay.state.players.player1.x
    /\ Live(game.players.player2)
    /\ Live(replay.state.players.player2)
    /\ game.players.player2.y > Px(PLAYER_START_Y)
    /\ game.players.player2.hp # replay.state.players.player2.hp

\* a tick with no input for vehicle id, Descending before and after it
IdleDescent(id) ==
    /\ last.called
    /\ last.inputs[id] = NoInput
    /\ prev.players[id].state = "descending"
    /\ game.players[id].state = "descending"

\* C19 as claimed: with no input, while a vehicle is Descending both its
\* depth and its wear strictly increase from each tick to the next
C19_DescentAndWear ==
    \A id \in Vehicles :
        IdleDescent(id) => /\ game.players[id].y > prev.players[id].y
                           /\ game.players[id].wear > prev.players[id].wear

Generated == probe.fn = "generateObstacles"

\* C20 as claimed: generateObstacles returns the list it was given as a
\* prefix of its result, generates no chunk that has an entry in that list,
\* and called again for the same range on its own result returns the same
\* list
C20_Idempotent ==
    Generated =>
        /\ Len(probe.result) >= Len(probe.currentObstacles)
        /\ SubSeq(probe.result, 1, Len(probe.currentObstacles)) = probe.currentObstacles
        /\ \A k \in Len(probe.currentObstacles) + 1..Len(probe.result) :
              ~ChunkExists(probe.currentObstacles, probe.result[k].id[1])
        /\ probe.again = probe.result

GeneratedPair == probe.fn = "generateObstacles pair"

\* C21 as claimed: two generateObstacles calls made with generators in the
\* same state, the same list and the same depth range return lists that are
\* equal element by element, and leave both generators in the same state
C21_SameLists ==
    GeneratedPair =>
        /\ probe.first.obstacles = probe.second.obstacles
        /\ probe.first.rng = probe.second.rng

\* C22 as claimed: the obstacle ids of a GameState are pairwise distinct
\* (those of the first call of generateObstacles, made on an empty list,
\* included), and over a run generateChunk is called at most once for each
\* chunk index
C22_DistinctIds ==
    /\ \A i, j \in 1..Len(game.obstacles) :
          i # j => game.obstacles[i].id # game.obstacles[j].id
    /\ last.chunks \cap last.generated = {}

\* the obstacle o of the state passed to the last call, as the call returned it
Updated(o, n) ==
    LET newX == o.x + o.velocityX
        left == Px(WORLD_LEFT_BOUND)
        right == getWorldRightBound(canvasWidth) - o.width
    IN  IF o.velocityX = 0 /\ o.velocityY = 0
        THEN [n EXCEPT !.active = o.active] = o
        ELSE /\ n.y = o.y + o.velocityY
             /\ newX \in left..right => (n.x = newX /\ n.velocityX = o.velocityX)
             /\ newX < left => (n.x = left /\ n.velocityX = -o.velocityX)
             /\ newX > right => (n.x = right /\ n.velocityX = -o.velocityX)

InsideBounds(o) ==
    /\ o.x >= Px(WORLD_LEFT_BOUND)
    /\ o.x + o.width <= getWorldRightBound(canvasWidth)

\* C23: a tick returns every obstacle with zero velocity unchanged; a moving
\* obstacle has moved by its velocity, or, where that would take its x out of
\* [WORLD_LEFT_BOUND, rightBound - width], is at the bound with velocityX
\* negated; and every moving obstacle is inside the horizontal bounds
C23_ObstaclesMove ==
    (last.called /\ ~prev.gameOver) =>
        /\ \A k \in 1..Len(prev.obstacles) : Updated(prev.obstacles[k], game.obstacles[k])
        /\ \A k \in 1..Len(game.obstacles) :
              game.obstacles[k].velocityX # 0 => InsideBounds(game.obstacles[k])

\* a turtle has turned at the right wall while another swam on and a coral
\* stayed where it was
C23_Witness ==
    /\ last.called
    /\ \E k \in 1..Len(prev.obstacles) :
          /\ prev.obstacles[k].velocityX > 0
          /\ game.obstacles[k].velocityX < 0
          /\ game.obstacles[k].x = getWorldRightBound(canvasWidth) - game.obstacles[k].width
    /\ \E k \in 1..Len(prev.obstacles) :
          /\ prev.obstacles[k].velocityX < 0
          /\ game.obstacles[k].x = prev.obstacles[k].x + prev.obstacles[k].velocityX
    /\ \E k \in 1..Len(prev.obstacles) :
          /\ prev.obstacles[k].type = "coral"
          /\ game.obstacles[k].x = prev.obstacles[k].x

RngCalled(name) == probe.fn = "rng" /\ probe.call = name

\* C24: a generator built by createRNG from any integer seed starts in a
\* state of 1..2^31 - 1; after any calls every state is an integer of
\* 0..2^31 - 1, so that every value state / LCG_M returned by next() is at
\* least 0 and below 1
C24_StateRange ==
    /\ RngCalled("createRNG") => probe.rngs[probe.result] \in 1..LCG_M_MINUS_1
    /\ \A i \in Objects : probe.rngs[i] \in 0..LCG_M_MINUS_1
    /\ RngCalled("next") => /\ probe.result = probe.rngs[probe.on]
                            /\ probe.result >= 0
                            /\ probe.result <= LCG_M_MINUS_1

\* a generator built from a negative seed of 2^31 or more in absolute value
\* has drawn twice
C24_Witness ==
    /\ RngCalled("next")
    /\ probe.built[probe.on] = "createRNG"
    /\ probe.seeds[probe.on].negative
    /\ probe.seeds[probe.on].high > 0
    /\ Len(probe.outputs[probe.on]) = 2

\* C25: once setState(s) has been called with s = getState() of a generator,
\* the restored generator holds s and its next outputs are those of the
\* generator s was taken from, whatever state the restored one had
C25_RestoreRoundTrip ==
    RngCalled("setState") =>
        /\ probe.rngs[probe.on] = probe.given.state
        /\ Draws(probe.rngs[probe.on], MaxDraws)
             = Draws(probe.before[probe.given.from], MaxDraws)

\* a generator that has drawn gave its state to another one, which was in a
\* different state
C25_Witness ==
    /\ RngCalled("setState")
    /\ probe.on # probe.given.from
    /\ probe.outputs[probe.given.from] # <<>>
    /\ probe.before[probe.on] # probe.given.state
    /\ probe.seeds[probe.on] # probe.seeds[probe.given.from]

\* C26: clone() returns a new generator in the state of the original, so
\* that the outputs of the two from then on are equal, and a call that
\* advances one generator leaves the state of every other generator as it was
C26_CloneIndependent ==
    /\ RngCalled("clone") =>
          /\ probe.result # probe.on
          /\ probe.result \notin 1..Len(probe.before)
          /\ probe.rngs[probe.on] = probe.before[probe.on]
          /\ Draws(probe.rngs[probe.result], MaxDraws) = Draws(probe.rngs[probe.on], MaxDraws)
    /\ (RngCalled("next") \/ RngCalled("pick")) =>
          \A j \in Objects \ {probe.on} : probe.rngs[j] = probe.before[j]

\* a generator and its clone are in different states: one of them was
\* advanced after the cloning and the other not
C26_Witness ==
    /\ RngCalled("next")
    /\ \E j \in Objects \ {probe.on} :
          /\ "clone" \in {probe.built[j], probe.built[probe.on]}
          /\ probe.before[j] = probe.before[probe.on]
          /\ probe.rngs[j] # probe.rngs[probe.on]

\* C27: pick on an empty list ends in an error and leaves the state of the
\* generator unchanged; pick on a non-empty list returns an element of the
\* list and advances the state by exactly one step
C27_Pick ==
    RngCalled("pick") =>
        IF probe.given = <<>>
        THEN /\ probe.result = PickError
             /\ probe.rngs = probe.before
        ELSE /\ \E k \in 1..Len(probe.given) : probe.result = probe.given[k]
             /\ probe.rngs[probe.on] = RngNext(probe.before[probe.on])

\* a generator that has drawn was asked to pick from an empty list
C27_Witness ==
    /\ RngCalled("pick")
    /\ probe.given = <<>>
    /\ probe.result = PickError
    /\ probe.outputs[probe.on] # <<>>

\* the first MaxDraws outputs of generator i since it got the state it
\* started from: those it has produced, then those it will
Sequence(i) ==
    SubSeq(probe.outputs[i] \o Draws(probe.rngs[i], MaxDraws), 1, MaxDraws)

\* C28 as claimed: two generators built by createRNG from different integer
\* seeds produce different output sequences
C28_SeedSensitive ==
    probe.fn = "rng" =>
        \A i, j \in Objects :
            (/\ probe.built[i] = "createRNG"
             /\ probe.built[j] = "createRNG"
             /\ probe.seeds[i] # probe.seeds[j])
                => Sequence(i) # Sequence(j)

\* the pickup's box overlaps that of the vehicle
Touches(pickup, player) ==
    checkAABBCollision(Box(player), [x |-> pickup.x, y |-> pickup.y,
                                     width |-> pickup.size, height |-> pickup.size])

TakenIds(id) == {last.taken[id][k].id : k \in 1..Len(last.taken[id])}

\* C29: a pickup is applied only to a vehicle that is Descending and whose
\* box overlaps it; a pickup that both vehicles could collect in a tick is
\* applied to player 1 only; no pickup is applied twice over a run; and a
\* pickup that has been applied is in no state returned from then on
C29_Pickups ==
    last.called =>
        /\ \A id \in Vehicles : \A k \in 1..Len(last.taken[id]) :
              /\ last.collectors[id].state = "descending"
              /\ Touches(last.taken[id][k], last.collectors[id])
              /\ \E j \in 1..Len(last.offered) : last.offered[j] = last.taken[id][k]
        /\ \A k \in 1..Len(last.offered) :
              (\A id \in Vehicles : /\ last.collectors[id].state = "descending"
                                    /\ Touches(last.offered[k], last.collectors[id]))
                 => /\ last.offered[k].id \in TakenIds("player1")
                    /\ last.offered[k].id \notin TakenIds("player2")
        /\ TakenIds("player1") \cap TakenIds("player2") = {}
        /\ \A id \in Vehicles :
              /\ Cardinality(TakenIds(id)) = Len(last.taken[id])
              /\ TakenIds(id) \cap last.applied = {}
        /\ \A k \in 1..Len(game.pickups) :
              game.pickups[k].id \notin
                  (last.applied \cup TakenIds("player1") \cup TakenIds("player2"))
        /\ \A id \in Vehicles :
              /\ game.players[id].rocketsRemaining = last.collectors[id].rocketsRemaining
                    + Cardinality({k \in 1..Len(last.taken[id]) : last.taken[id][k].type = "rocket"})
              /\ game.players[id].minesRemaining = last.collectors[id].minesRemaining
                    + Cardinality({k \in 1..Len(last.taken[id]) : last.taken[id][k].type = "mine"})

\* both submarines, Descending, overlap one pickup of the tick, and player 1
\* has it
C29_Witness ==
    /\ last.called
    /\ \E k \in 1..Len(last.offered) :
          /\ \A id \in Vehicles : /\ last.collectors[id].state = "descending"
                                  /\ Touches(last.offered[k], last.collectors[id])
          /\ last.offered[k].id \in TakenIds("player1")

\* C30: over a run no depth is covered by two of the 100-unit segments rolled
\* for pickups (each segment of a call starts at or below the end of no
\* segment rolled before), and every pickup a call spawns has its depth
\* inside one of the segments the call rolled
C30_SegmentRolls ==
    last.called =>
        /\ \A d \in last.segments : d >= last.rolledTo
        /\ \A k \in 1..Len(last.spawned) :
              \E d \in last.segments : /\ d <= last.spawned[k].y
                                       /\ last.spawned[k].y < d + Px(SEGMENT_SIZE)

\* the second half of C30 alone: a spawned pickup lies in a segment of its call
SpawnedInsideSegment ==
    last.called =>
        \A k \in 1..Len(last.spawned) :
            \E d \in last.segments : /\ d <= last.spawned[k].y
                                     /\ last.spawned[k].y < d + Px(SEGMENT_SIZE)

\* the fish the last call created
SpawnedFish == {k \in 1..Len(last.school) : k > Len(prev.anglerFish)}

\* C31: no state holds more than ANGLER_FISH_MAX_COUNT fish; a call creates
\* at most one fish, and only if the deepest active vehicle of the state
\* passed in is below ANGLER_FISH_MIN_DEPTH and that state holds fewer fish
\* than the cap
C31_FishCap ==
    /\ Len(game.anglerFish) <= ANGLER_FISH_MAX_COUNT
    /\ last.called =>
          /\ Len(last.school) <= ANGLER_FISH_MAX_COUNT
          /\ SubSeq(last.school, 1, Len(prev.anglerFish)) = prev.anglerFish
          /\ Cardinality(SpawnedFish) <= 1
          /\ SpawnedFish # {} =>
                /\ MaxActiveDepth(prev.players) > Px(ANGLER_FISH_MIN_DEPTH)
                /\ Len(prev.anglerFish) < ANGLER_FISH_MAX_COUNT

\* a call on a state that holds ANGLER_FISH_MAX_COUNT fish, with a vehicle
\* below ANGLER_FISH_MIN_DEPTH, creates none
C31_Witness ==
    /\ last.called
    /\ ~prev.gameOver
    /\ Len(prev.anglerFish) = ANGLER_FISH_MAX_COUNT
    /\ MaxActiveDepth(prev.players) > Px(ANGLER_FISH_MIN_DEPTH)
    /\ SpawnedFish = {}

\* fish k of the last call's school after its move
MovedFish(k) == MoveFish(last.school[k], FishTarget(last.school[k], last.prey), last.prey)

\* what the moved fish overlaps: an active obstacle of the tick, its
\* Descending target; and whether the returned state still holds the fish
FishFact(moved) ==
    [target |-> moved.targetPlayerId,
     blocked |-> \E j \in 1..Len(game.obstacles) :
                    /\ game.obstacles[j].active
                    /\ checkAABBCollision(Box(moved), Box(game.obstacles[j])),
     onTarget |-> /\ moved.targetPlayerId # NoTarget
                  /\ last.prey[moved.targetPlayerId].state = "descending"
                  /\ checkAABBCollision(Box(moved), Box(last.prey[moved.targetPlayerId])),
     kept |-> \E j \in 1..Len(game.anglerFish) : game.anglerFish[j].id = moved.id]

FishFacts == [k \in 1..Len(last.school) |-> FishFact(MovedFish(k))]

\* the fish that reached vehicle id unblocked
Biters(seen, id) ==
    {k \in 1..Len(seen) : ~seen[k].blocked /\ seen[k].onTarget /\ seen[k].target = id}

WearlessDepth == -((Px(MAX_DEPTH) * BASE_WEAR_RATE_MILLI) \div DEPTH_WEAR_FACTOR_MILLI)

\* C33 as claimed: the game ends whatever the inputs, because every call
\* brings each active vehicle nearer its end: a vehicle that stays Descending
\* has gained wear, and one that stays Ascending has risen
C33_GameEnds ==
    last.called =>
        \A id \in Vehicles :
            /\ (prev.players[id].state = "descending" /\ game.players[id].state = "descending")
                  => game.players[id].wear > prev.players[id].wear
            /\ (prev.players[id].state = "ascending" /\ game.players[id].state = "ascending")
                  => game.players[id].y < prev.players[id].y

\* where the wear is lost: a Descending vehicle that holds `up` above
\* WearlessDepth stays Descending, rises further and gains no wear
Adrift ==
    last.called =>
        \A id \in Vehicles :
            (/\ prev.players[id].state = "descending"
             /\ prev.players[id].y <= WearlessDepth
             /\ last.inputs[id] = HoldUp)
                => /\ game.players[id].state = "descending"
                   /\ game.players[id].y < prev.players[id].y
                   /\ game.players[id].wear <= prev.players[id].wear

\* vehicle id was active at the last call and its invincibilityFrames were
\* above zero after the decrement, or set afresh by its dump of ballast
Invincible(id) ==
    /\ last.called
    /\ ~prev.gameOver
    /\ ~IsDone(prev.players[id])
    /\ \/ prev.players[id].invincibilityFrames > 1
       \/ last.inputs[id].action = "dumpBallast" /\ prev.players[id].state = "descending"

\* C34: a vehicle whose invincibilityFrames are above zero after the
\* decrement of a tick collides with no obstacle in it (updatePlayer returns
\* it as it would with no obstacle at all: no HP lost, no collision wear), is
\* hit by no projectile and loses no HP to a fish; and invincibilityFrames
\* is within 0..INVINCIBILITY_FRAMES in every state
C34_Invincible ==
    /\ \A id \in Vehicles :
          game.players[id].invincibilityFrames \in 0..INVINCIBILITY_FRAMES
    /\ \A id \in Vehicles :
          Invincible(id) =>
              /\ last.collided[id] = <<>>
              /\ last.moved[id] =
                    updatePlayer(prev.players[id], last.inputs[id], <<>>, canvasWidth).player
              /\ \A k \in 1..Len(last.hits) :
                    ~(last.hits[k].targetType = "player" /\ last.hits[k].targetId = id)
              /\ last.collectors[id].hp = last.fired[id].hp
              /\ last.collectors[id].state = last.fired[id].state
              /\ game.players[id].hp = last.prey[id].hp
              /\ game.players[id].hp >= last.moved[id].hp

\* an invincible vehicle lies upon an active obstacle and is returned unhurt
C34_Witness ==
    \E id \in Vehicles :
        /\ Invincible(id)
        /\ last.inputs[id].action # "dumpBallast"
        /\ game.players[id].hp = prev.players[id].hp
        /\ \E j \in 1..Len(game.obstacles) :
              /\ game.obstacles[j].active
              /\ checkAABBCollision(Box(last.moved[id]), Box(game.obstacles[j]))

\* vehicle id as updatePlayer would return it from the last call had there
\* been no obstacle
Unhindered(id) == updatePlayer(prev.players[id], last.inputs[id], <<>>, canvasWidth).player

\* obstacle j of the returned list was active when the last call began
ActiveBefore(j) == j > Len(prev.obstacles) \/ prev.obstacles[j].active

\* the obstacles the box overlaps, of those active before the call, in list order
Overlapped(box) ==
    LET On(o) == checkAABBCollision(box, Box(o))
    IN  SelectSeq([j \in 1..Len(game.obstacles) |->
                      IF ActiveBefore(j) THEN game.obstacles[j]
                      ELSE [game.obstacles[j] EXCEPT !.width = 0, !.height = 0, !.x = -1]],
                  On)

\* HP and wear taken by the first n obstacles of a list
RECURSIVE Toll(_, _)
Toll(obstacles, n) ==
    IF n = 0 THEN [hp |-> 0, wear |-> 0]
    ELSE [hp |-> Toll(obstacles, n - 1).hp + COLLISION_DAMAGE[obstacles[n].type],
          wear |-> Toll(obstacles, n - 1).wear + Wear(COLLISION_WEAR[obstacles[n].type])]

Killed(p, toll) == p.hp - toll.hp <= 0 \/ p.wear + toll.wear >= Wear(WEAR_LIMIT)

\* the collisions of vehicle `moved`, returned for the vehicle p that
\* overlaps the obstacles `over`, with `collided` reported
Compounded(p, over, collided, moved) ==
    /\ Len(collided) <= Len(over)
    /\ \A k \in 1..Len(collided) : collided[k] = over[k].id
    /\ moved.hp = p.hp - Toll(over, Len(collided)).hp
    /\ moved.wear = Min(Wear(WEAR_LIMIT), p.wear + Toll(over, Len(collided)).wear)
    /\ \A n \in 1..Len(collided) - 1 : ~Killed(p, Toll(over, n))
    /\ (moved.state = "dead") = (Len(collided) > 0 /\ Killed(p, Toll(over, Len(collided))))
    /\ Len(collided) < Len(over) => moved.state = "dead"
    /\ \A k \in 1..Len(collided) : \A j \in 1..Len(game.obstacles) :
          game.obstacles[j].id = collided[k] => ~game.obstacles[j].active

\* a Descending vehicle open to collisions in the last call
Exposed(id, p) ==
    /\ last.called
    /\ ~prev.gameOver
    /\ prev.players[id].state = "descending"
    /\ p.state = "descending"
    /\ p.invincibilityFrames = 0

\* C35: a Descending vehicle that is not invincible takes the HP damage and
\* the wear of the active obstacles it overlaps, one after the other in list
\* order, until one of them makes it Dead; the obstacles it hit are reported
\* and are inactive in the returned state
C35_Compound ==
    \A id \in Vehicles : \A p \in {Unhindered(id)} :
        Exposed(id, p) => Compounded(p, Overlapped(Box(p)), last.collided[id], last.moved[id])

\* a submarine hits two obstacles in one tick and dives on, twice hurt
C35_Witness ==
    \E id \in Vehicles : \E p \in {Unhindered(id)} :
        /\ Exposed(id, p)
        /\ Len(last.collided[id]) >= 2
        /\ last.moved[id].state = "descending"
        /\ last.moved[id].hp <= p.hp - 2

\* the ids of the obstacles the last call reported as hit, by a vehicle or by
\* a projectile
HitObstacleIds ==
    UNION {{last.collided[id][k] : k \in 1..Len(last.collided[id])} : id \in Vehicles}
    \cup {last.hits[k].targetId :
              k \in {h \in 1..Len(last.hits) : last.hits[h].targetType = "obstacle"}}

\* C36: a returned state holds only active projectiles, pickups and fish,
\* and no projectile whose lifetime has run out; the obstacles of the state
\* passed in are all returned, in place; an obstacle hit in the call is in
\* the returned list with active = false; and an obstacle that was inactive
\* before the call is inactive after it and is hit by nothing in it; a fish
\* is removed only upon an active obstacle or upon its target
C36_Lifecycles ==
    /\ \A k \in 1..Len(game.projectiles) :
          game.projectiles[k].active /\ game.projectiles[k].lifetime > 0
    /\ \A k \in 1..Len(game.pickups) : game.pickups[k].active
    /\ \A k \in 1..Len(game.anglerFish) : game.anglerFish[k].active
    /\ last.called =>
          /\ Len(game.obstacles) >= Len(prev.obstacles)
          /\ \A j \in 1..Len(prev.obstacles) :
                /\ game.obstacles[j].id = prev.obstacles[j].id
                /\ ~prev.obstacles[j].active =>
                      /\ ~game.obstacles[j].active
                      /\ game.obstacles[j].id \notin HitObstacleIds
          /\ \A id \in HitObstacleIds :
                \E j \in 1..Len(game.obstacles) :
                    game.obstacles[j].id = id /\ ~game.obstacles[j].active
          /\ ~prev.gameOver =>
                \A seen \in {FishFacts} : \A k \in 1..Len(seen) :
                    ~seen[k].kept => (seen[k].blocked \/ seen[k].onTarget)

\* a submarine open to collisions lies upon an obstacle that was hit in an
\* earlier call: the obstacle is still in the list, and the submarine passes
C36_Witness ==
    /\ last.called
    /\ \E id \in Vehicles : \E p \in {Unhindered(id)} :
          /\ Exposed(id, p)
          /\ \E j \in 1..Len(prev.obstacles) :
                /\ ~prev.obstacles[j].active
                /\ checkAABBCollision(Box(p), Box(game.obstacles[j]))
                /\ game.obstacles[j].id \notin HitObstacleIds

\* the obstacles of the last call after updateObstacles, as the vehicles met
\* them: where the returned state has them, active as they were before
MovingObstacles ==
    [j \in 1..Len(game.obstacles) |-> [game.obstacles[j] EXCEPT !.active = ActiveBefore(j)]]

\* the window updateGameState passes to updatePlayer (lines 866-871)
VisibleWindow(obstacles) ==
    getVisibleObstacles(obstacles,
                        Min(prev.players.player1.y, prev.players.player2.y) - Px(100),
                        MaxActiveDepth(prev.players) + Px(200), Px(100))

Millis(ms) == 3 * ms

FIXED_DT == Millis(1000) \div TICKS_PER_SECOND

\* the 0.2 of lines 239-241, in seconds
AccumulatedCap == Millis(200)

ViewPlans == {9, 14}

\* milliseconds between two animation frames
Elapsed == {16, 17, 250}

\* a loop that lets the debt grow
CapAccumulatedNever(accumulated) == accumulated

\* if (accumulatedTimeRef.current > 0.2) accumulatedTimeRef.current = 0.2
CapAccumulated(accumulated) ==
    IF accumulated > AccumulatedCap THEN AccumulatedCap ELSE accumulated

\* what the keyboard gives sampleInputs(frame) in a run of the plan
SampledInputs(frame) ==
    IF frame < ScriptLength(Plans[plan].script) THEN ScriptInput(Plans[plan].script, frame)
    ELSE Both(NoInput, NoInput)

Drained(state, counters, accumulated, calls) ==
    [state |-> state, ids |-> counters, accumulated |-> accumulated, calls |-> calls]

RECURSIVE Drain(_)
RECURSIVE DrainPass(_, _)
\* while (accumulatedTimeRef.current >= FIXED_DT) { ... } (lines 264-268)
Drain(run) ==
    IF run.accumulated >= FIXED_DT
    THEN DrainPass(run, Tick(run.state, SampledInputs(run.state.frame),
                             [canvasWidth |-> canvasWidth, ids |-> run.ids]))
    ELSE run

DrainPass(run, t) ==
    CASE Evaluated(t) ->
        Drain(Drained(t.state, t.ids, run.accumulated - FIXED_DT, run.calls + 1))

\* the component after its first render and its effects: the loop effect
\* has requested the first frame
Mounted(gameState) ==
    [fn |-> "GameView", screen |-> "game",
     gameState |-> gameState,
     player1Ready |-> FALSE, player2Ready |-> FALSE, gameOverDelay |-> FALSE,
     set |-> [player1Ready |-> FALSE, player2Ready |-> FALSE, gameOverDelay |-> FALSE],
     firstFrame |-> TRUE,          \* lastTimeRef.current === 0
     accumulated |-> 0,            \* accumulatedTimeRef.current
     animationFrame |-> TRUE,      \* a frame is requested and has neither run nor been cancelled
     timeout |-> "none",           \* the timer of gameOverTimeoutRef: none, armed, cleared, fired
     captured |-> NoGame,          \* the gameState of the closure of the timer
     finalGameState |-> NoGame,    \* App's finalGameState
     invoked |-> 0,                \* calls of onGameOver
     drained |-> FALSE,            \* a frame has run the while loop
     span |-> 0,                   \* the accumulator of the last frame before the while loop
     calls |-> 0]                  \* calls of updateGameState in the last frame

GameViewMounted == probe.fn = "GameView" /\ probe.screen = "game"

\* const gameStarted = player1Ready && player2Ready, as rendered
gameStarted == probe.player1Ready /\ probe.player2Ready

\* a setter was given a value that is not rendered yet
Scheduled ==
    \/ game # probe.gameState
    \/ probe.set.player1Ready # probe.player1Ready
    \/ probe.set.player2Ready # probe.player2Ready
    \/ probe.set.gameOverDelay # probe.gameOverDelay

\* lines 244-260: the frame of a game that has not started
ReadyFrame(accumulated, player1Down, player2Down) ==
    /\ probe' = [probe EXCEPT !.firstFrame = FALSE,
                              !.accumulated = accumulated,
                              !.set.player1Ready = @ \/ player1Down,
                              !.set.player2Ready = @ \/ player2Down,
                              !.animationFrame = TRUE,
                              !.span = accumulated,
                              !.calls = 0]
    /\ UNCHANGED <<game, ids, ticks>>

\* lines 263-276: the frame of a started game, run the while loop's result
PlayFrame(accumulated, run) ==
    /\ game' = run.state
    /\ ids' = run.ids
    /\ ticks' = ticks + run.calls
    /\ probe' = [probe EXCEPT !.firstFrame = FALSE,
                              !.accumulated = run.accumulated,
                              !.animationFrame = ~run.state.gameOver,
                              !.drained = TRUE,
                              !.span = accumulated,
                              !.calls = run.calls]

\* gameLoop(timestamp), the callback of requestAnimationFrame (lines 229-277)
gameLoop(elapsed, player1Down, player2Down) ==
    /\ GameViewMounted
    /\ probe.animationFrame
    /\ ~Scheduled
    /\ \E accumulated \in {CapAccumulated(probe.accumulated
                                            + IF probe.firstFrame THEN 0 ELSE Millis(elapsed))} :
          IF ~gameStarted
          THEN ReadyFrame(accumulated, player1Down, player2Down)
          ELSE \E run \in {Drain(Drained(probe.gameState, ids, accumulated, 0))} :
                  PlayFrame(accumulated, run)
    /\ UNCHANGED <<plan, prev, arg, last, canvasWidth, recorded, replay>>

AnimationFrame ==
    \E elapsed \in Elapsed, player1Down \in BOOLEAN, player2Down \in BOOLEAN :
        gameLoop(elapsed, player1Down, player2Down)

\* the effect of lines 202-218 runs again when gameState or gameOverDelay
\* has changed: first the cleanup of its last run, that clears the timer of
\* the ref, then its body, with the values of this render
GameOverCleanup(view, changed) ==
    IF changed /\ view.timeout = "armed" THEN [view EXCEPT !.timeout = "cleared"] ELSE view

GameOverBody(view, changed) ==
    IF changed /\ view.gameState.gameOver /\ ~view.gameOverDelay
    THEN [view EXCEPT !.set.gameOverDelay = TRUE,
                      !.timeout = "armed",
                      !.captured = view.gameState]
    ELSE view

GameOverEffect(view, changed) == GameOverBody(GameOverCleanup(view, changed), changed)

\* the effect of lines 281-289 runs again when gameLoop has changed, that
\* is when the ready flags have: it cancels the frame of the ref and
\* requests one for the new callback
LoopEffect(view, changed) ==
    IF changed THEN [view EXCEPT !.animationFrame = TRUE] ELSE view

\* React renders the component with the values given to the setters and
\* runs the effects whose dependencies have changed
Render ==
    /\ GameViewMounted
    /\ Scheduled
    /\ \E rendered \in {[probe EXCEPT !.gameState = game,
                                      !.player1Ready = probe.set.player1Ready,
                                      !.player2Ready = probe.set.player2Ready,
                                      !.gameOverDelay = probe.set.gameOverDelay]} :
          probe' = LoopEffect(
                       GameOverEffect(rendered,
                                      \/ game # probe.gameState
                                      \/ probe.set.gameOverDelay # probe.gameOverDelay),
                       \/ probe.set.player1Ready # probe.player1Ready
                       \/ probe.set.player2Ready # probe.player2Ready)
    /\ UNCHANGED <<plan, ticks, game, prev, arg, last, canvasWidth, ids, recorded, replay>>

\* the timer of line 208 fires: onGameOver(gameState), that is
\* App.handleGameOver, which leaves the game screen; GameView unmounts and
\* its cleanups cancel the frame
GameOverTimeout ==
    /\ GameViewMounted
    /\ probe.timeout = "armed"
    /\ probe' = [probe EXCEPT !.timeout = "fired",
                              !.invoked = @ + 1,
                              !.finalGameState = probe.captured,
                              !.screen = "gameOver",
                              !.animationFrame = FALSE]
    /\ UNCHANGED <<plan, ticks, game, prev, arg, last, canvasWidth, ids, recorded, replay>>

InitView ==
    /\ plan \in ViewPlans
    /\ ticks = 0
    /\ canvasWidth = Plans[plan].canvasWidth
    /\ ids = [projectile |-> 0, pickup |-> 0, anglerFish |-> 0]
    /\ game = createInitialState([seed |-> Plans[plan].seed], canvasWidth)
    /\ prev = game
    /\ arg = game
    /\ last = NoLast
    /\ recorded = <<>>
    /\ replay = NoGame
    /\ probe = Mounted(game)

NextView == AnimationFrame \/ Render \/ GameOverTimeout

SpecView == InitView /\ [][NextView]_vars

\* React runs a scheduled render, and a timer that stays armed fires.  Once
\* the game is over no frame is requested (line 274), so that what follows
\* the end of the game rests on these two alone
SpecViewFair == SpecView /\ WF_vars(Render) /\ WF_vars(GameOverTimeout)

\* C38: a frame makes at most 12 calls of updateGameState, whatever time
\* has passed; the accumulator before the while loop is at most the cap and
\* is the calls made times FIXED_DT plus what is left, which is in
\* [0, FIXED_DT) once the loop has run; and no call is made, and the game is
\* as created, while the two ready flags are not both rendered
C38_GameLoop ==
    GameViewMounted =>
        /\ probe.calls <= 12
        /\ probe.accumulated >= 0
        /\ probe.span <= AccumulatedCap
        /\ probe.span = probe.calls * FIXED_DT + probe.accumulated
        /\ probe.drained => probe.accumulated < FIXED_DT
        /\ ~gameStarted =>
              /\ ticks = 0
              /\ ~probe.drained
              /\ game = createInitialState([seed |-> Plans[plan].seed], canvasWidth)

\* a frame that comes 250 ms after the last one has made 12 calls
C38_Witness ==
    /\ GameViewMounted
    /\ probe.drained
    /\ probe.calls = 12
    /\ probe.span = AccumulatedCap
    /\ ticks > 12

\* C39: once the game is over in a mounted GameView, the application
\* comes to the game-over screen
C39_Transition ==
    (GameViewMounted /\ game.gameOver) ~> (probe.fn = "GameView" /\ probe.screen = "gameOver")

\* the render that shows the overlay has cleared the timer: the game is
\* over, no frame is requested, nothing is scheduled and no timer is armed
Stranded ==
    /\ GameViewMounted
    /\ game.gameOver
    /\ probe.gameOverDelay
    /\ probe.timeout = "cleared"
    /\ ~probe.animationFrame
    /\ ~Scheduled

\* with the overlay rendered, the timer is not armed
OverlayDisarms ==
    (GameViewMounted /\ probe.gameOverDelay) => probe.timeout # "armed"

(***************************************************************************)
(* useKeyboardInput (src/ui/useKeyboardInput.ts).  The handlers of the     *)
(* window's events and the calls of sampleInputs run one at a time, in any *)
(* order.  probe holds the refs of the hook, the buttons the gamepads      *)
(* report and the module-level prevGamepadButtonStates; a keydown comes    *)
(* for any key of KeyCodes at any time, a held key's repeats included.     *)
(* Kept for the properties: first, the first action key of each player     *)
(* since the last sample; returns, the samples that have returned the      *)
(* action of the last keydown that was taken; yields, for each button, the *)
(* samples in which its present press gave the frame its action.           *)
(***************************************************************************)
P1_KEYS == [down |-> "KeyS", eject |-> "KeyQ", rocket |-> "KeyE", mine |-> "KeyR"]

P2_KEYS == [down |-> "ArrowDown", eject |-> "Slash", rocket |-> "Period", mine |-> "Comma"]

\* the keys pressed in a run
KeyCodes == {"KeyS", "KeyQ", "KeyE", "Slash"}

\* gamepad 0 is player 1, gamepad 1 is player 2
Pads == [player1 |-> 0, player2 |-> 1]

\* the players who have a gamepad in a run: player 2 plays on the keyboard
\* and navigator.getGamepads()[1] is null
PadOwners == {"player1"}

\* the buttons pressed in a run, on each gamepad
PadButtons == [player1 |-> {0, 1}, player2 |-> {}]

\* the buttons in the order getGamepadAction tests them, and their actions
ButtonOrder == <<0, 1, 2, 3, 5, 4>>

ButtonAction(button) ==
    CASE button \in {0, 5} -> "fireRocket"
      [] button \in {1, 4} -> "deployMine"
      [] button \in {2, 3} -> "dumpBallast"

KeyAction(keys, code) ==
    CASE code = keys.eject -> "dumpBallast"
      [] code = keys.rocket -> "fireRocket"
      [] code = keys.mine -> "deployMine"
      [] OTHER -> "none"

\* a handler that lets the last key win
handleKeyDownLatest(refs, code) ==
    [keyState |-> [player1 |-> [down |-> refs.keyState.player1.down \/ code = P1_KEYS.down],
                   player2 |-> [down |-> refs.keyState.player2.down \/ code = P2_KEYS.down]],
     actionPressed |->
         [player1 |-> IF KeyAction(P1_KEYS, code) # "none"
                      THEN KeyAction(P1_KEYS, code) ELSE refs.actionPressed.player1,
          player2 |-> IF KeyAction(P2_KEYS, code) # "none"
                      THEN KeyAction(P2_KEYS, code) ELSE refs.actionPressed.player2]]

\* handleKeyDown (lines 232-297): keyState and actionPressed after the event
handleKeyDown(refs, code) ==
    [keyState |-> [player1 |-> [down |-> refs.keyState.player1.down \/ code = P1_KEYS.down],
                   player2 |-> [down |-> refs.keyState.player2.down \/ code = P2_KEYS.down]],
     actionPressed |->
         [player1 |-> IF KeyAction(P1_KEYS, code) # "none" /\ refs.actionPressed.player1 = "none"
                      THEN KeyAction(P1_KEYS, code) ELSE refs.actionPressed.player1,
          player2 |-> IF KeyAction(P2_KEYS, code) # "none" /\ refs.actionPressed.player2 = "none"
                      THEN KeyAction(P2_KEYS, code) ELSE refs.actionPressed.player2]]

\* handleKeyUp (lines 299-313)
handleKeyUp(refs, code) ==
    [refs EXCEPT !.keyState.player1.down = @ /\ code # P1_KEYS.down,
                 !.keyState.player2.down = @ /\ code # P2_KEYS.down]

\* a test of the level of the button, not of its edge
wasGamepadButtonPressed(wasPressed, buttonIndex, currentPressed) ==
    [just |-> currentPressed,
     wasPressed |-> IF currentPressed THEN wasPressed \cup {buttonIndex}
                    ELSE wasPressed \ {buttonIndex}]

\* wasGamepadButtonJustPressed (lines 50-64); wasPressed is the set of the
\* buttons prevGamepadButtonStates[gamepadIndex] holds as true
wasGamepadButtonJustPressed(wasPressed, buttonIndex, currentPressed) ==
    [just |-> currentPressed /\ buttonIndex \notin wasPressed,
     wasPressed |-> IF currentPressed THEN wasPressed \cup {buttonIndex}
                    ELSE wasPressed \ {buttonIndex}]

RECURSIVE ScanButtons(_, _, _)
RECURSIVE ScanButton(_, _, _)
\* getGamepadAction (lines 102-134): the first button of the order that was
\* just pressed gives the action, and the buttons after it are not looked at
ScanButtons(order, pressed, wasPressed) ==
    IF order = <<>> THEN [action |-> "none", button |-> -1, wasPressed |-> wasPressed]
    ELSE ScanButton(order, pressed,
                    wasGamepadButtonJustPressed(wasPressed, Head(order), Head(order) \in pressed))

ScanButton(order, pressed, test) ==
    IF test.just
    THEN [action |-> ButtonAction(Head(order)), button |-> Head(order),
          wasPressed |-> test.wasPressed]
    ELSE ScanButtons(Tail(order), pressed, test.wasPressed)

getGamepadAction(gamepad) ==
    IF gamepad.connected THEN ScanButtons(ButtonOrder, gamepad.pressed, gamepad.wasPressed)
    ELSE [action |-> "none", button |-> -1, wasPressed |-> gamepad.wasPressed]

\* sampleGamepads (lines 139-165), the actions
sampleGamepads(gamepads) == [id \in Vehicles |-> getGamepadAction(gamepads[id])]

\* a sample that leaves the pending actions in place
sampleInputsKept(view, gamepadInput) ==
    [frames |-> [id \in Vehicles |->
                    Input(FALSE, FALSE, FALSE, view.keyState[id].down,
                          IF view.actionPressed[id] # "none" THEN view.actionPressed[id]
                          ELSE gamepadInput[id].action)],
     keyboard |-> view.actionPressed,
     actionPressed |-> view.actionPressed]

\* sampleInputs (lines 346-385), gamepadInput the result of sampleGamepads:
\* the frames returned, the keyboard actions read and the ref after the call
sampleInputs(view, gamepadInput) ==
    [frames |-> [id \in Vehicles |->
                    Input(FALSE, FALSE, FALSE, view.keyState[id].down,
                          IF view.actionPressed[id] # "none" THEN view.actionPressed[id]
                          ELSE gamepadInput[id].action)],
     keyboard |-> view.actionPressed,
     actionPressed |-> [id \in Vehicles |-> "none"]]

Hooked ==
    [fn |-> "useKeyboardInput",
     keyState |-> [id \in Vehicles |-> [down |-> FALSE]],
     actionPressed |-> [id \in Vehicles |-> "none"],
     gamepads |-> [id \in Vehicles |->
                      [connected |-> id \in PadOwners, pressed |-> {}, wasPressed |-> {}]],
     sampled |-> Both(NoInput, NoInput),
     keyboard |-> [id \in Vehicles |-> "none"],
     first |-> [id \in Vehicles |-> "none"],
     taken |-> [id \in Vehicles |-> FALSE],
     returns |-> [id \in Vehicles |-> 0],
     yields |-> [id \in Vehicles |-> [button \in PadButtons[id] |-> 0]]]

Hook == probe.fn = "useKeyboardInput"

KeyDown(code) ==
    /\ Hook
    /\ \E refs \in {handleKeyDown(probe, code)} :
          probe' = [probe EXCEPT
                      !.keyState = refs.keyState,
                      !.actionPressed = refs.actionPressed,
                      !.first = [id \in Vehicles |->
                                    IF probe.first[id] = "none"
                                    THEN KeyAction(IF id = "player1" THEN P1_KEYS ELSE P2_KEYS, code)
                                    ELSE probe.first[id]],
                      !.taken = [id \in Vehicles |->
                                    probe.taken[id]
                                      \/ refs.actionPressed[id] # probe.actionPressed[id]],
                      !.returns = [id \in Vehicles |->
                                      IF refs.actionPressed[id] # probe.actionPressed[id]
                                      THEN 0 ELSE probe.returns[id]]]
    /\ UnchangedGame

KeyUp(code) ==
    /\ Hook
    /\ \E refs \in {handleKeyUp(probe, code)} :
          probe' = [probe EXCEPT !.keyState = refs.keyState]
    /\ UnchangedGame

\* the player presses a button of a connected gamepad: a new press
ButtonDown(id, button) ==
    /\ Hook
    /\ probe.gamepads[id].connected
    /\ button \notin probe.gamepads[id].pressed
    /\ probe' = [probe EXCEPT !.gamepads[id].pressed = @ \cup {button},
                              !.yields[id][button] = 0]
    /\ UnchangedGame

ButtonUp(id, button) ==
    /\ Hook
    /\ button \in probe.gamepads[id].pressed
    /\ probe' = [probe EXCEPT !.gamepads[id].pressed = @ \ {button}]
    /\ UnchangedGame

\* handleGamepadDisconnect (lines 322-326): the gamepad is gone, with the
\* buttons it reported, and its entry of prevGamepadButtonStates is deleted
GamepadDisconnect(id) ==
    /\ Hook
    /\ probe.gamepads[id].connected
    /\ probe' = [probe EXCEPT !.gamepads[id] =
                                  [connected |-> FALSE, pressed |-> {}, wasPressed |-> {}]]
    /\ UnchangedGame

GamepadConnect(id) ==
    /\ Hook
    /\ ~probe.gamepads[id].connected
    /\ probe' = [probe EXCEPT !.gamepads[id].connected = TRUE]
    /\ UnchangedGame

\* one call of sampleInputs(frame)
Sampled(gamepadInput, r) ==
    probe' = [probe EXCEPT
                !.actionPressed = r.actionPressed,
                !.gamepads = [id \in Vehicles |->
                                 [probe.gamepads[id] EXCEPT
                                     !.wasPressed = gamepadInput[id].wasPressed]],
                !.sampled = r.frames,
                !.keyboard = r.keyboard,
                !.first = [id \in Vehicles |-> "none"],
                !.returns = [id \in Vehicles |->
                                IF r.keyboard[id] # "none" THEN probe.returns[id] + 1
                                ELSE probe.returns[id]],
                !.yields = [id \in Vehicles |-> [button \in PadButtons[id] |->
                               IF /\ r.keyboard[id] = "none"
                                  /\ gamepadInput[id].button = button
                               THEN probe.yields[id][button] + 1
                               ELSE probe.yields[id][button]]]]

SampleInputs ==
    /\ Hook
    /\ \E gamepadInput \in {sampleGamepads(probe.gamepads)} :
          \E r \in {sampleInputs(probe, gamepadInput)} : Sampled(gamepadInput, r)
    /\ UnchangedGame

InitInput ==
    /\ plan = 1
    /\ ticks = 0
    /\ canvasWidth = Plans[plan].canvasWidth
    /\ ids = [projectile |-> 0, pickup |-> 0, anglerFish |-> 0]
    /\ game = createInitialState([seed |-> Plans[plan].seed], canvasWidth)
    /\ prev = game
    /\ arg = game
    /\ last = NoLast
    /\ recorded = <<>>
    /\ replay = NoGame
    /\ probe = Hooked

NextInput ==
    \/ \E code \in KeyCodes : KeyDown(code)
    \/ \E code \in KeyCodes : KeyUp(code)
    \/ \E id \in Vehicles : \E button \in PadButtons[id] : ButtonDown(id, button)
    \/ \E id \in Vehicles : \E button \in PadButtons[id] : ButtonUp(id, button)
    \/ \E id \in PadOwners : GamepadDisconnect(id)
    \/ \E id \in PadOwners : GamepadConnect(id)
    \/ SampleInputs

SpecInput == InitInput /\ [][NextInput]_vars

====
